---- MODULE Spec2Model ----
(***************************************************************************)
(* Model of the claWasm agent controller (src/src/lib.rs, chat.rs,         *)
(* security.rs): one user turn of ClaWasm::chat_verbose as a state         *)
(* machine whose steps are the stretches of code between two awaits.       *)
(*                                                                         *)
(* Text is modelled as a rope: a sequence of spans [src, lo, hi], the      *)
(* characters lo..hi-1 of the text named src.  A literal of the code is    *)
(* the span of its own characters; the text of a user message, of the      *)
(* system prompt or of a tool output is opaque and has only a name and a   *)
(* length.  chars().count() is the sum of the span lengths, format! and    *)
(* join are concatenation, chars[i..end] is a slice.                       *)
(***************************************************************************)
EXTENDS Integers, Sequences, FiniteSets, TLC

\* ---------------------------------------------------------------- bounds
MaxTurns   == 2        \* user turns per session
MaxVaried  == 2        \* non-default answers of the model / the tools per session
SystemLen  == 3000     \* characters of build_system_prompt()
UserLen    == 40       \* characters of an ordinary user message
PasteLen   == 79500    \* characters of a pasted, very long user message
ShortLen   == 25       \* characters of an ordinary tool output
HugeLen    == 4000     \* characters of a very long tool output
ErrLen     == 17       \* characters of a tool error text
MaxSegs    == 3        \* segments of a model text handed to the parser
TicksPerSecond == 2    \* ticks of the millisecond clock in one second
MaxListLen == 1        \* entries of an allowlist or a blocklist
MaxPending == 2        \* actions ever handed to add_pending_action
MaxCapacity == 2       \* largest max_entries of a MemoryConfig
MaxLimit == 2          \* largest limit of a recall
MaxClock == 4          \* ticks the clock runs
MaxOps == 5            \* calls made on one MemorySystem
MaxStored == 3         \* entries an earlier session left in localStorage
MaxNative == 2         \* native tool calls in one answer of a backend
MaxWords == 2          \* words of a text handed to extract_keywords

\* ------------------------------------------------------ program constants
MaxIterations == 10
batch_size    == 800
max_messages  == 20
max_total     == 100000
max_size      == 80000

Min(a, b) == IF a < b THEN a ELSE b

\* ------------------------------------------------------------------ text
Span(src, lo, hi) == [src |-> src, lo |-> lo, hi |-> hi]

\* a string literal of the code
Lit(s) == IF Len(s) = 0 THEN <<>> ELSE <<Span(s, 0, Len(s))>>

\* an opaque text of n characters
Opaque(id, n) == IF n = 0 THEN <<>> ELSE <<Span(id, 0, n)>>

\* concatenation; two adjacent pieces of the same text are one piece
Cat(a, b) ==
    IF a = <<>> THEN b
    ELSE IF b = <<>> THEN a
    ELSE LET x == a[Len(a)]
             y == b[1]
         IN  IF x.src = y.src /\ x.hi = y.lo
             THEN SubSeq(a, 1, Len(a) - 1) \o <<Span(x.src, x.lo, y.hi)>> \o Tail(b)
             ELSE a \o b

\* s.chars().count()
Chars(s) ==
    LET RECURSIVE CharsFrom(_)
        CharsFrom(k) == IF k > Len(s) THEN 0 ELSE (s[k].hi - s[k].lo) + CharsFrom(k + 1)
    IN  CharsFrom(1)

\* chars[i..j]
Slice(s, i, j) ==
    LET RECURSIVE SliceFrom(_, _)
        SliceFrom(k, off) ==
            IF k > Len(s) \/ off >= j THEN <<>>
            ELSE LET n  == s[k].hi - s[k].lo
                     a  == IF i > off THEN i - off ELSE 0
                     b  == Min(j - off, n)
                     me == IF a < b THEN <<Span(s[k].src, s[k].lo + a, s[k].lo + b)>>
                           ELSE <<>>
                 IN  me \o SliceFrom(k + 1, off + n)
    IN  SliceFrom(1, 0)

\* parts.join(sep)
Join(parts, sep) ==
    LET RECURSIVE JoinFrom(_)
        JoinFrom(k) ==
            IF k > Len(parts) THEN <<>>
            ELSE IF k = Len(parts) THEN parts[k]
            ELSE Cat(Cat(parts[k], Lit(sep)), JoinFrom(k + 1))
    IN  JoinFrom(1)

\* -------------------------------------------------------------- messages
Message(role, content) == [role |-> role, content |-> content]
system(content)    == Message("system", content)
user(content)      == Message("user", content)
assistant(content) == Message("assistant", content)

IsSystem(m) == m.role = "system"

build_system_prompt == Opaque("<system prompt>", SystemLen)

with_system_prompt(prompt) == <<system(prompt)>>

\* a new message put in front of the earlier user messages
add_user_first(messages, content) == <<messages[1], user(content)>> \o Tail(messages)

\* self.messages.push(Message::user(content))
add_user(messages, content) == Append(messages, user(content))

\* current_messages.iter().map(|m| m.content.chars().count()).sum()
total_size(msgs) ==
    LET RECURSIVE TotalFrom(_)
        TotalFrom(k) ==
            IF k > Len(msgs) THEN 0 ELSE Chars(msgs[k].content) + TotalFrom(k + 1)
    IN  TotalFrom(1)

\* ---------------------------------------------------------- model output
\* The text of a model response is a sequence of segments:
\*   text   prose without braces or markers (name is the prose)
\*   open   a left brace that nothing closes, in prose
\*   close  a right brace that nothing opened, in prose
\*   fence  FENCE tool\n{"name":NAME,"arguments":ARGS}\nFENCE, FENCE being the
\*          three backquotes of a code fence
\*   json   {"name":NAME,"arguments":ARGS} outside a fence
\*   flat   the object ARGS alone, outside a fence
\*   xml    {"arguments":ARGS}<arg_value>NAME</tool_call>
\* ARGS is an object as it is written: a sequence of <<key, value>> pairs,
\* the values being JSON strings.
Seg(kind, name, args) == [kind |-> kind, name |-> name, args |-> args]

ToolCall(name, arguments) == [name |-> name, arguments |-> arguments]

\* the JSON text of an object
Render(pairs) ==
    LET RECURSIVE RenderFrom(_)
        RenderFrom(k) ==
            IF k > Len(pairs) THEN ""
            ELSE (IF k > 1 THEN "," ELSE "")
                   \o "\"" \o pairs[k][1] \o "\":\"" \o pairs[k][2] \o "\""
                   \o RenderFrom(k + 1)
    IN  "{" \o RenderFrom(1) \o "}"

\* serde_json::Value of an object: a map, the last of equal keys winning
Value(pairs) ==
    [key \in {pairs[i][1] : i \in 1..Len(pairs)} |->
        pairs[CHOOSE i \in 1..Len(pairs) :
                 /\ pairs[i][1] = key
                 /\ \A j \in (i + 1)..Len(pairs) : pairs[j][1] # key][2]]

\* the three backquotes of a code fence, written with a character a TLA+
\* string can hold
Fence == "~~~"

\* the response as the String the provider returned, segment by segment
ResponseText(resp) ==
    LET ToolJson(s) ==
            "{\"name\":\"" \o s.name \o "\",\"arguments\":" \o Render(s.args) \o "}"
        SegText(s) ==
            CASE s.kind = "text"  -> Lit(s.name)
              [] s.kind = "open"  -> Lit("{")
              [] s.kind = "close" -> Lit("}")
              [] s.kind = "fence" -> Lit(Fence \o "tool\n" \o ToolJson(s) \o "\n" \o Fence)
              [] s.kind = "json"  -> Lit(ToolJson(s))
              [] s.kind = "flat"  -> Lit(Render(s.args))
              [] s.kind = "xml"   -> Lit("{\"arguments\":" \o Render(s.args) \o "}<arg_value>"
                                           \o s.name \o "</tool_call>")
        RECURSIVE TextFrom(_)
        TextFrom(k) == IF k > Len(resp) THEN <<>> ELSE Cat(SegText(resp[k]), TextFrom(k + 1))
    IN  TextFrom(1)

SameCall(c, d) == c.name = d.name /\ c.arguments = d.arguments

\* first pass: every fenced tool block that deserializes to a ToolCall
RECURSIVE FencedFrom(_, _)
FencedFrom(resp, k) ==
    IF k > Len(resp) THEN <<>>
    ELSE (IF resp[k].kind = "fence"
          THEN <<ToolCall(resp[k].name, Value(resp[k].args))>>
          ELSE <<>>) \o FencedFrom(resp, k + 1)

\* the name left among the arguments
FlatCall_keepsName(pairs) ==
    IF \E i \in 1..Len(pairs) : pairs[i][1] = "name"
    THEN <<ToolCall(Value(pairs)["name"], Value(pairs))>>
    ELSE <<>>

\* an object with a string name and no arguments field, read as a call: the
\* other fields are the arguments (lines 351-358)
FlatCall(pairs) ==
    LET others == SelectSeq(pairs, LAMBDA p : p[1] # "name")
    IN  IF \E i \in 1..Len(pairs) : pairs[i][1] = "name"
        THEN <<ToolCall(Value(pairs)["name"], Value(others))>>
        ELSE <<>>

\* second pass: every {...} object that opens at depth 0, skipping the calls
\* already held
RECURSIVE ScanFrom(_, _, _, _)
ScanFrom(resp, k, depth, calls) ==
    LET seg == resp[k]
        \* the call, if any, the brace scan reads in the segment: the object
        \* that opens at depth 0 is the one it tries to read
        found ==
            CASE seg.kind \in {"fence", "json"} ->
                     IF depth = 0 THEN <<ToolCall(seg.name, Value(seg.args))>>
                     ELSE IF depth = -1 THEN FlatCall(seg.args)
                     ELSE <<>>
              [] seg.kind = "flat" -> IF depth = 0 THEN FlatCall(seg.args) ELSE <<>>
              [] seg.kind = "xml"  -> IF depth = -1 THEN FlatCall(seg.args) ELSE <<>>
              [] OTHER -> <<>>
        \* depth += 1 at a left brace, depth -= 1 at a right brace
        after ==
            CASE seg.kind = "open"  -> depth + 1
              [] seg.kind = "close" -> depth - 1
              [] OTHER -> depth
    IN  IF k > Len(resp) THEN calls
        ELSE IF /\ found # <<>>
                /\ ~ \E i \in 1..Len(calls) : SameCall(calls[i], found[1])
             THEN ScanFrom(resp, k + 1, after, calls \o found)
             ELSE ScanFrom(resp, k + 1, after, calls)

\* name after the last <arg_value>, arguments of the object at the first
\* left brace
parse_xml_tool_call(resp) ==
    LET tagged == {k \in 1..Len(resp) : resp[k].kind = "xml"}
        braced == {k \in 1..Len(resp) : resp[k].kind \notin {"text", "close"}}
        last   == CHOOSE k \in tagged : \A j \in tagged : j <= k
        first  == CHOOSE k \in braced : \A j \in braced : k <= j
    IN  IF tagged = {} THEN <<>>
        ELSE <<ToolCall(resp[last].name,
                        IF resp[first].kind \in {"xml", "json", "fence"}
                        THEN Value(resp[first].args)
                        ELSE Value(<<>>))>>

\* a parse that tries the tag pattern whatever the first two passes found
parse_all_tool_calls_xmlToo(resp) ==
    ScanFrom(resp, 1, 0, FencedFrom(resp, 1)) \o parse_xml_tool_call(resp)

parse_all_tool_calls(resp) ==
    LET calls == ScanFrom(resp, 1, 0, FencedFrom(resp, 1))
    IN  IF calls = <<>> THEN parse_xml_tool_call(resp) ELSE calls

\* ---------------------------------------------------------- SecurityGate
Range(f) == {f[i] : i \in DOMAIN f}

DefaultSecurityConfig ==
    [pairing_enabled       |-> TRUE,
     sandbox_enabled       |-> TRUE,
     allowed_domains       |-> <<"wikipedia.org", "github.com", "stackoverflow.com", "docs.rs">>,
     blocked_domains       |-> <<>>,
     allowed_tools         |-> <<"web_search", "get_current_time", "calculate", "save_note", "read_notes">>,
     blocked_tools         |-> <<>>,
     max_tool_calls        |-> 5,
     require_tool_approval |-> FALSE]

SecurityManager_new(config) ==
    [config            |-> config,
     pending_approvals |-> {},
     approved_actions  |-> {},
     denied_actions    |-> {}]

ToolCallAction(name, args) == [type |-> "ToolCall", name |-> name, args |-> args]
FetchUrlAction(url)        == [type |-> "FetchUrl", url |-> url]
SaveDataAction(key)        == [type |-> "SaveData", key |-> key]

Allow                    == [decision |-> "Allow", why |-> ""]
Deny(reason)             == [decision |-> "Deny", why |-> reason]
RequireApproval(message) == [decision |-> "RequireApproval", why |-> message]

None == "None"

\* str::contains
contains(s, d) ==
    \E i \in 1..(Len(s) - Len(d) + 1) : SubSeq(s, i, i + Len(d) - 1) = d

starts_with(s, prefix) ==
    Len(s) >= Len(prefix) /\ SubSeq(s, 1, Len(prefix)) = prefix

Whitespace == {" ", "\n", "\t"}

\* str::trim
RECURSIVE trim(_)
trim(s) ==
    IF Len(s) = 0 THEN s
    ELSE IF SubSeq(s, 1, 1) \in Whitespace THEN trim(SubSeq(s, 2, Len(s)))
    ELSE IF SubSeq(s, Len(s), Len(s)) \in Whitespace THEN trim(SubSeq(s, 1, Len(s) - 1))
    ELSE s

\* extract_domain, with <<domain>> for Some(domain) and <<>> for None
extract_domain(url) ==
    LET \* str::strip_prefix, with <<>> for None
        strip_prefix(s, prefix) ==
            IF starts_with(s, prefix) THEN <<SubSeq(s, Len(prefix) + 1, Len(s))>> ELSE <<>>
        \* s.split(ch).next(): the piece before the first ch, always there
        FirstPiece(s, ch) ==
            LET at == {i \in 1..Len(s) : SubSeq(s, i, i) = ch}
            IN  IF at = {} THEN <<s>>
                ELSE <<SubSeq(s, 1, (CHOOSE i \in at : \A j \in at : i <= j) - 1)>>
        trimmed  == trim(url)
        https    == strip_prefix(trimmed, "https://")
        http     == strip_prefix(trimmed, "http://")
        stripped == IF https # <<>> THEN https[1]
                    ELSE IF http # <<>> THEN http[1]
                    ELSE trimmed
        host     == FirstPiece(stripped, "/")
    IN  IF host = <<>> THEN <<>> ELSE FirstPiece(host[1], ":")

\* the identity of an action: the hash of its debug text, taken as that text
\* (two different actions are given different identities)
generate_action_id(action) == action

\* a blocklist that wants the domain to be equal to an entry
check_sandbox_exactMatch(sec, action) ==
    CASE action.type = "FetchUrl" ->
             LET domain == extract_domain(action.url)
             IN  IF /\ domain # <<>>
                    /\ \E d \in Range(sec.config.blocked_domains) : domain[1] = d
                 THEN "domain is blocked"
                 ELSE None
      [] action.type = "ToolCall" ->
             IF action.name \in Range(sec.config.blocked_tools) THEN "blocked" ELSE None
      [] OTHER -> None

check_sandbox(sec, action) ==
    CASE action.type = "FetchUrl" ->
             LET domain == extract_domain(action.url)
             IN  IF /\ domain # <<>>
                    /\ \E d \in Range(sec.config.blocked_domains) : contains(domain[1], d)
                 THEN "domain is blocked"
                 ELSE None
      [] action.type = "ToolCall" ->
             IF action.name \in Range(sec.config.blocked_tools) THEN "blocked" ELSE None
      [] OTHER -> None

\* an allowlist that looks at domains only
check_allowlist_domainsOnly(sec, action) ==
    CASE action.type = "FetchUrl" ->
             LET domain == extract_domain(action.url)
             IN  IF /\ domain # <<>>
                    /\ sec.config.allowed_domains # <<>>
                    /\ ~ \E d \in Range(sec.config.allowed_domains) : contains(domain[1], d)
                 THEN "domain is not in allowlist"
                 ELSE None
      [] OTHER -> None

check_allowlist(sec, action) ==
    CASE action.type = "FetchUrl" ->
             LET domain == extract_domain(action.url)
             IN  IF /\ domain # <<>>
                    /\ sec.config.allowed_domains # <<>>
                    /\ ~ \E d \in Range(sec.config.allowed_domains) : contains(domain[1], d)
                 THEN "domain is not in allowlist"
                 ELSE None
      [] action.type = "ToolCall" ->
             IF /\ sec.config.allowed_tools # <<>>
                /\ action.name \notin Range(sec.config.allowed_tools)
             THEN "not in allowlist"
             ELSE None
      [] OTHER -> None

\* a pairing check that does not look at pairing_enabled
check_action_noPairingFlag(sec, action) ==
    IF sec.config.sandbox_enabled /\ check_sandbox(sec, action) # None
    THEN Deny(check_sandbox(sec, action))
    ELSE IF check_allowlist(sec, action) # None
    THEN Deny(check_allowlist(sec, action))
    ELSE IF /\ sec.config.require_tool_approval
            /\ generate_action_id(action) \notin sec.approved_actions
    THEN RequireApproval("Approval required")
    ELSE Allow

check_action(sec, action) ==
    IF sec.config.sandbox_enabled /\ check_sandbox(sec, action) # None
    THEN Deny(check_sandbox(sec, action))
    ELSE IF check_allowlist(sec, action) # None
    THEN Deny(check_allowlist(sec, action))
    ELSE IF /\ sec.config.pairing_enabled
            /\ sec.config.require_tool_approval
            /\ generate_action_id(action) \notin sec.approved_actions
    THEN RequireApproval("Approval required")
    ELSE Allow

\* is_tool_allowed
is_tool_allowed(sec, name) ==
    IF name \in Range(sec.config.blocked_tools) THEN FALSE
    ELSE IF sec.config.allowed_tools # <<>>
    THEN name \in Range(sec.config.allowed_tools)
    ELSE TRUE

\* a url check that wants the domain itself in the lists
is_url_allowed_exactMatch(sec, url) ==
    LET domain == extract_domain(url)
    IN  IF domain = <<>> THEN TRUE
        ELSE IF domain[1] \in Range(sec.config.blocked_domains) THEN FALSE
        ELSE IF sec.config.allowed_domains # <<>>
        THEN domain[1] \in Range(sec.config.allowed_domains)
        ELSE TRUE

\* is_url_allowed
is_url_allowed(sec, url) ==
    LET domain == extract_domain(url)
    IN  IF domain = <<>> THEN TRUE
        ELSE IF \E d \in Range(sec.config.blocked_domains) : contains(domain[1], d)
        THEN FALSE
        ELSE IF sec.config.allowed_domains # <<>>
        THEN \E d \in Range(sec.config.allowed_domains) : contains(domain[1], d)
        ELSE TRUE

\* pending_approvals maps an identity to its action; an identity being its
\* action here, the map is the set of the identities it holds
add_pending_action(sec, action) ==
    [sec EXCEPT !.pending_approvals = @ \cup {generate_action_id(action)}]

\* an approval that leaves the action pending
approve_action_keepsPending(sec, action_id) ==
    IF action_id \in sec.pending_approvals
    THEN [sec EXCEPT !.approved_actions = @ \cup {generate_action_id(action_id)}]
    ELSE sec

approve_action(sec, action_id) ==
    IF action_id \in sec.pending_approvals
    THEN [sec EXCEPT !.pending_approvals = @ \ {action_id},
                     !.approved_actions = @ \cup {generate_action_id(action_id)}]
    ELSE sec

deny_action(sec, action_id) ==
    IF action_id \in sec.pending_approvals
    THEN [sec EXCEPT !.pending_approvals = @ \ {action_id},
                     !.denied_actions = @ \cup {generate_action_id(action_id)}]
    ELSE sec

\* Ok(()) or Err("No pending action with ID: ...")
PendingResult(sec, action_id) ==
    IF action_id \in sec.pending_approvals THEN "Ok" ELSE "Err"

\* ----------------------------------------------------------- MemoryStore
\* No API key is set on the MemorySystem ClaWasm::new builds, so
\* get_embedding fails, .ok() turns the failure into None and every entry
\* and every query goes without an embedding: the score is the keyword score.
\* Time is counted in ticks of the millisecond clock generate_id reads;
\* chrono's timestamp() is the same clock in whole seconds.
MemoryConfig(backend, capacity) ==
    [backend        |-> backend,
     keyword_weight |-> 3,
     max_entries    |-> capacity]

MemorySystem_new(config) == [config |-> config, entries |-> <<>>]

\* localStorage: the items memory_<id> and the item memory_index
EmptyStorage == [index |-> <<>>, items |-> <<>>]

\* generate_id(): "mem_" and the milliseconds since the epoch
generate_id(millis) == "mem_" \o ToString(millis)

\* chrono::Utc::now().timestamp()
timestamp(millis) == millis \div TicksPerSecond

MemoryEntry(id, content, now) ==
    [id           |-> id,
     content      |-> content,
     embedding    |-> <<>>,
     created_at   |-> now,
     accessed_at  |-> now,
     access_count |-> 0]

\* ---- extract_keywords
Lowercase == "abcdefghijklmnopqrstuvwxyz"
Uppercase == "ABCDEFGHIJKLMNOPQRSTUVWXYZ"

\* str::to_lowercase
RECURSIVE to_lowercase(_)
to_lowercase(s) ==
    LET c == SubSeq(s, 1, 1)
        upper == {j \in 1..Len(Uppercase) : SubSeq(Uppercase, j, j) = c}
        lower == IF upper = {} THEN c
                 ELSE LET i == CHOOSE j \in upper : TRUE IN SubSeq(Lowercase, i, i)
    IN  IF Len(s) = 0 THEN s ELSE lower \o to_lowercase(SubSeq(s, 2, Len(s)))

\* word.chars().filter(|c| c.is_alphanumeric()).collect()
RECURSIVE only_alphanumeric(_)
only_alphanumeric(s) ==
    LET chars == Lowercase \o Uppercase \o "0123456789"
        c == SubSeq(s, 1, 1)
        is_alphanumeric == \E i \in 1..Len(chars) : SubSeq(chars, i, i) = c
    IN  IF Len(s) = 0 THEN s
        ELSE (IF is_alphanumeric THEN c ELSE "") \o only_alphanumeric(SubSeq(s, 2, Len(s)))

\* str::split_whitespace: the maximal runs of non-whitespace characters
RECURSIVE split_whitespace(_, _)
split_whitespace(s, word) ==
    IF Len(s) = 0 THEN (IF word = "" THEN <<>> ELSE <<word>>)
    ELSE IF SubSeq(s, 1, 1) \in Whitespace
    THEN (IF word = "" THEN <<>> ELSE <<word>>) \o split_whitespace(SubSeq(s, 2, Len(s)), "")
    ELSE split_whitespace(SubSeq(s, 2, Len(s)), word \o SubSeq(s, 1, 1))

stop_words ==
    {"the", "a", "an", "is", "are", "was", "were", "be", "been", "being",
     "have", "has", "had", "do", "does", "did", "will", "would", "could",
     "should", "may", "might", "must", "shall", "can", "need", "dare", "ought",
     "used", "to", "of", "in", "for", "on", "with", "at", "by", "from", "as",
     "into", "through", "during", "before", "after", "above", "below", "between",
     "and", "but", "or", "nor", "so", "yet", "both", "either", "neither",
     "not", "only", "own", "same", "than", "too", "very", "just"}

extract_keywords(text) ==
    LET words == split_whitespace(to_lowercase(text), "")
        RECURSIVE KeywordsFrom(_)
        KeywordsFrom(k) ==
            IF k > Len(words) THEN <<>>
            ELSE LET word  == words[k]
                     clean == only_alphanumeric(word)
                 IN  (IF Len(word) > 2 /\ word \notin stop_words /\ clean # ""
                      THEN <<clean>>
                      ELSE <<>>) \o KeywordsFrom(k + 1)
    IN  KeywordsFrom(1)

\* the texts saved and the texts asked for
Contents == {"Rust wasm notes", "the cat"}

Queries == {"rust", "cat?"}

\* extract_keywords of each of these texts, worked out once
Keywords == [text \in Contents \cup Queries |-> extract_keywords(text)]

\* ---- the score, as the fraction num / den with den > 0
\* jaccard_similarity
jaccard_similarity(a, b) ==
    LET set_a == Range(a)
        set_b == Range(b)
    IN  IF a = <<>> /\ b = <<>> THEN [num |-> 1, den |-> 1]
        ELSE [num |-> Cardinality(set_a \cap set_b), den |-> Cardinality(set_a \cup set_b)]

\* b.score.partial_cmp(&a.score) is not Greater: a stays in front of b
NotBelow(a, b) == a.num * b.den >= b.num * a.den

\* a stable sort by accessed_at: an entry goes behind every entry that is not
\* younger than it
\* self.entries.sort_by_key(|e| e.accessed_at)
SortByAccessed(entries) ==
    LET RECURSIVE SortFrom(_, _)
        SortFrom(k, sorted) ==
            IF k > Len(entries) THEN sorted
            ELSE LET x == entries[k]
                     n == Cardinality({i \in 1..Len(sorted) :
                                          sorted[i].accessed_at <= x.accessed_at})
                 IN  SortFrom(k + 1,
                         SubSeq(sorted, 1, n) \o <<x>> \o SubSeq(sorted, n + 1, Len(sorted)))
    IN  SortFrom(1, <<>>)

\* results.sort_by(|a, b| b.score.partial_cmp(&a.score)...): a stable sort by
\* descending score
SortByScore(results) ==
    LET RECURSIVE SortFrom(_, _)
        SortFrom(k, sorted) ==
            IF k > Len(results) THEN sorted
            ELSE LET x == results[k]
                     n == Cardinality({i \in 1..Len(sorted) :
                                          NotBelow(sorted[i].score, x.score)})
                 IN  SortFrom(k + 1,
                         SubSeq(sorted, 1, n) \o <<x>> \o SubSeq(sorted, n + 1, Len(sorted)))
    IN  SortFrom(1, <<>>)

\* an eviction that takes the first entry of the list as it stands
Evict_first(entries) == Tail(entries)

\* lines 120-124: sort by accessed_at, remove the first
Evict(entries) == Tail(SortByAccessed(entries))

\* persist_to_indexeddb
persist(store, entry) ==
    [index |-> IF entry.id \in Range(store.index) THEN store.index
               ELSE Append(store.index, entry.id),
     items |-> [id \in DOMAIN store.items \cup {entry.id} |->
                   IF id = entry.id THEN entry ELSE store.items[id]]]

\* load_from_indexeddb: the entries of the index, in its order
load_from_indexeddb(store) ==
    LET RECURSIVE LoadFrom(_)
        LoadFrom(k) ==
            IF k > Len(store.index) THEN <<>>
            ELSE (IF store.index[k] \in DOMAIN store.items
                  THEN <<store.items[store.index[k]]>>
                  ELSE <<>>) \o LoadFrom(k + 1)
    IN  LoadFrom(1)

\* the entries after a save at `millis`
Saved(mem, content, millis) ==
    LET entry == MemoryEntry(generate_id(millis), content, timestamp(millis))
        kept  == IF Len(mem.entries) >= mem.config.max_entries
                 THEN Evict(mem.entries)
                 ELSE mem.entries
    IN  Append(kept, entry)

\* for each result, the first entry with its id gets the access, line 181
RECURSIVE TouchAll(_, _, _, _)
TouchAll(entries, top, k, now) ==
    LET at == {i \in 1..Len(entries) : entries[i].id = top[k].entry.id}
        touched ==
            IF at = {} THEN entries
            ELSE LET i == CHOOSE j \in at : \A h \in at : j <= h
                 IN  [entries EXCEPT ![i] = [@ EXCEPT !.accessed_at = now,
                                                     !.access_count = @ + 1]]
    IN  IF k > Len(top) THEN entries ELSE TouchAll(touched, top, k + 1, now)

\* the scored and sorted results of a recall over `entries`
Ranked(config, entries, query) ==
    LET keyword_score(entry) == jaccard_similarity(Keywords[query], Keywords[entry.content])
        \* keyword_score * keyword_weight * (1.0 + access_count * 0.01), in
        \* thousandths
        score(entry) ==
            [num |-> keyword_score(entry).num * config.keyword_weight
                        * (100 + entry.access_count),
             den |-> keyword_score(entry).den]
    IN  SortByScore([i \in 1..Len(entries) |->
                        [entry |-> entries[i], score |-> score(entries[i])]])

\* ------------------------------------------------------ tool result text
\* format!("Error: {:?}", e) for a JsValue holding the text e
ErrorText(e) == Cat(Cat(Lit("Error: JsValue(\""), e), Lit("\")"))

\* a failure that leaves no text behind
ToolResultText_swallow(outcome) ==
    IF outcome.ok THEN outcome.text ELSE <<>>

ToolResultText(outcome) ==
    IF outcome.ok THEN outcome.text ELSE ErrorText(outcome.text)

\* the batch count rounded the wrong way
num_batches_floor(result_len) == result_len \div batch_size + 1

num_batches(result_len) == (result_len + batch_size - 1) \div batch_size

\* the while loop that cuts chars into batches, from position i on
Batches(tool_result) ==
    LET result_len == Chars(tool_result)
        RECURSIVE BatchesFrom(_)
        BatchesFrom(i) ==
            IF i < result_len
            THEN <<[batch_idx |-> i \div batch_size + 1,
                    batch_num |-> num_batches(result_len),
                    batch     |-> Slice(tool_result, i, Min(i + batch_size, result_len))]>>
                 \o BatchesFrom(i + batch_size)
            ELSE <<>>
    IN  IF result_len > batch_size THEN BatchesFrom(0) ELSE <<>>

\* format!("[Part {}/{}]\n{}", batch_idx, batch_num, batch)
FormatBatch(b) ==
    Cat(Lit("[Part " \o ToString(b.batch_idx) \o "/" \o ToString(b.batch_num) \o "]\n"),
        b.batch)

\* the strings one executed call pushes onto tool_results:
\* format!("Tool '{}' (split into {} parts):\n{}", name, batch_num, batch) for
\* the first batch, the batch alone for the others, and
\* format!("Tool '{}' returned:\n{}", name, tool_result) for a result that is
\* not split
ResultEntries(name, tool_result) ==
    LET bs == Batches(tool_result)
        n  == num_batches(Chars(tool_result))
        first == Lit("Tool '" \o name \o "' (split into " \o ToString(n) \o " parts):\n")
    IN  IF Chars(tool_result) > batch_size
        THEN [k \in 1..Len(bs) |->
                IF k = 1 THEN Cat(first, FormatBatch(bs[k]))
                         ELSE FormatBatch(bs[k])]
        ELSE <<Cat(Lit("Tool '" \o name \o "' returned:\n"), tool_result)>>

Separator == "\n\n---\n\n"

\* -------------------------------------------------- ContextWindowManager
\* a scan that takes the trigger's threshold for its budget
RECURSIVE RecentFrom_wideBudget(_, _, _)
RecentFrom_wideBudget(msgs, k, current_size) ==
    IF k < 1 THEN <<>>
    ELSE IF IsSystem(msgs[k]) THEN RecentFrom_wideBudget(msgs, k - 1, current_size)
    ELSE LET msg_size == Chars(msgs[k].content)
         IN  IF current_size + msg_size > max_total
             THEN <<>>
             ELSE RecentFrom_wideBudget(msgs, k - 1, current_size + msg_size)
                      \o <<msgs[k]>>

\* a scan that steps over a message that does not fit and goes on
RECURSIVE RecentFrom_skip(_, _, _)
RecentFrom_skip(msgs, k, current_size) ==
    IF k < 1 THEN <<>>
    ELSE IF IsSystem(msgs[k]) THEN RecentFrom_skip(msgs, k - 1, current_size)
    ELSE LET msg_size == Chars(msgs[k].content)
         IN  IF current_size + msg_size > max_size
             THEN RecentFrom_skip(msgs, k - 1, current_size)
             ELSE RecentFrom_skip(msgs, k - 1, current_size + msg_size) \o <<msgs[k]>>

\* the newest-to-oldest scan from message k down, in chronological order
RECURSIVE RecentFrom(_, _, _)
RecentFrom(msgs, k, current_size) ==
    IF k < 1 THEN <<>>
    ELSE IF IsSystem(msgs[k]) THEN RecentFrom(msgs, k - 1, current_size)
    ELSE LET msg_size == Chars(msgs[k].content)
         IN  IF current_size + msg_size > max_size
             THEN <<>>
             ELSE RecentFrom(msgs, k - 1, current_size + msg_size) \o <<msgs[k]>>

\* a trigger that looks at the number of messages only
NeedsTrim_countOnly(msgs) == Len(msgs) > max_messages

NeedsTrim(msgs) == Len(msgs) > max_messages \/ total_size(msgs) > max_total

\* a trim that rebuilds the conversation from the recent messages only
Trim_dropsSystem(msgs) ==
    IF NeedsTrim(msgs) THEN RecentFrom(msgs, Len(msgs), 0) ELSE msgs

\* a trim that also cuts the conversation down to max_messages messages
Trim_toCount(msgs) ==
    IF NeedsTrim(msgs)
    THEN LET system_msgs == SelectSeq(msgs, IsSystem)
             recent_msgs == RecentFrom(msgs, Len(msgs), 0)
             room        == Min(max_messages - Len(system_msgs), Len(recent_msgs))
         IN  system_msgs \o SubSeq(recent_msgs, Len(recent_msgs) - room + 1,
                                   Len(recent_msgs))
    ELSE msgs

\* lines 234-264
Trim(msgs) ==
    IF NeedsTrim(msgs)
    THEN SelectSeq(msgs, IsSystem) \o RecentFrom(msgs, Len(msgs), 0)
    ELSE msgs

\* ------------------------------------------------------------ the session
VARIABLES
    chat,              \* self.chat.messages, the stored conversation
    security,          \* self.security
    pc,                \* where the turn's future is suspended
    verbose,           \* the turn's verbose flag
    current_messages,  \* the turn's working copy of the conversation
    response,          \* the last response of the provider, as segments
    tool_calls,        \* the turn's tool-call log
    iterations,        \* the loop counter
    calls,             \* the calls parsed in the current iteration
    next_call,         \* position in calls of the call being executed
    tool_result,       \* text of the last executed call's outcome
    batches,           \* the batches cut from tool_result
    reply,             \* what the last provider.chat call returned
    outcomes,          \* what execute_tool returned, call by call, in this iteration
    tool_results,      \* the result strings of the current iteration
    untrimmed,         \* the conversation after the two pushes, before trimming
    result,            \* what the turn's promise resolved to
    provider_calls,    \* provider.chat calls made in the turn
    executed,          \* the execute_tool invocations of the turn, with their iteration
    turns,             \* turns started in the session
    varied,            \* non-default answers so far
    gate_call,         \* the last call made on the SecurityManager
    gate_result,       \* what that call returned
    memory,            \* self.memory: its configuration and its entries
    storage,           \* what localStorage holds of the memory
    clock,             \* the millisecond clock
    mem_call,          \* the last call made on the MemorySystem
    mem_result,        \* what that call returned
    provider,          \* self.provider: which Provider the agent talks to
    backend_message    \* result.choices[0].message of the backend's last answer

\* the variables of a turn, of the SecurityManager's callers and of the
\* MemorySystem
turnVars == <<chat, pc, verbose, current_messages, response, tool_calls,
              iterations, calls, next_call, tool_result, batches, reply, outcomes,
              tool_results, untrimmed, result, provider_calls, executed, turns, varied>>

gateVars == <<gate_call, gate_result>>

memVars == <<memory, storage, clock, mem_call, mem_result>>

wireVars == <<provider, backend_message>>

vars == <<turnVars, security, gateVars, memVars, wireVars>>

\* what the model may answer
FinalAnswer == <<Seg("text", "Here is the answer.", <<>>)>>
SearchStep  == <<Seg("text", "Let me look that up.\n", <<>>),
                 Seg("fence", "web_search", <<<<"query", "X">>>>)>>
TwoCalls    == <<Seg("fence", "fetch_url", <<<<"url", "https://example.com">>>>),
                 Seg("text", "\nand then\n", <<>>),
                 Seg("json", "calculate", <<<<"expression", "1+1">>>>)>>

\* one call more than SecurityConfig.max_tool_calls allows, each in a fenced
\* block of its own
ManyCalls   == [k \in 1..(DefaultSecurityConfig.max_tool_calls + 1) |->
                   Seg("fence", "web_search", <<<<"query", ToString(k)>>>>)]

Responses == {FinalAnswer, SearchStep, TwoCalls}

\* what a tool may return: a short output, or a long one whose length goes
\* through the cases of the split with the position of the call in the turn
Ok(text)  == [ok |-> TRUE, text |-> text]
Err(text) == [ok |-> FALSE, text |-> text]

OutcomesOf(call, k) ==
    LET LongLens == <<HugeLen, batch_size + 1, batch_size>>
        OkLens   == {ShortLen, LongLens[(k % Len(LongLens)) + 1]}
    IN  {Ok(Opaque("<output " \o ToString(k) \o " of " \o call.name \o ">", n)) : n \in OkLens}
        \cup {Err(Opaque("<error " \o ToString(k) \o " of " \o call.name \o ">", ErrLen))}

\* what the user may send
UserTexts(k) ==
    {Opaque("<user message " \o ToString(k) \o ">", n) : n \in {UserLen, PasteLen}}

\* an answer other than the ordinary one counts against MaxVaried
Cost(ordinary) == IF ordinary THEN 0 ELSE 1

NoReply == Ok(<<>>)

\* a loop that runs once more
LoopContinues_offByOne(n) == n <= MaxIterations

\* while iterations < 10
LoopContinues(n) == n < MaxIterations

\* a log that skips a call it already holds
LogCall_dedup(log, call) ==
    IF \E i \in 1..Len(log) : SameCall(log[i], call) THEN log ELSE Append(log, call)

\* tool_calls.push(tool_call.clone())
LogCall(log, call) == Append(log, call)

\* execute_tool(&tool_call.name, &tool_call.arguments) is invoked
Invoke(done, n, call) == Append(done, [iteration |-> n, call |-> call])

\* the two pushes in the other order
PushStep_swapped(messages, text, results) ==
    Append(Append(messages, user(Join(results, Separator))), assistant(text))

\* the two pushes that close an iteration (lines 228-232)
PushStep(messages, text, results) ==
    Append(Append(messages, assistant(text)), user(Join(results, Separator)))

Pending == [kind |-> "pending", response |-> <<>>, toolCalls |-> <<>>]

\* a verbose turn that returns the pair even with an empty log
Resolve_verboseAlways(v, resp, log) ==
    IF v
    THEN [kind |-> "pair", response |-> ResponseText(resp), toolCalls |-> log]
    ELSE [kind |-> "text", response |-> ResponseText(resp), toolCalls |-> <<>>]

\* the value the promise resolves to (lines 276-288)
Resolve(v, resp, log) ==
    IF v /\ log # <<>>
    THEN [kind |-> "pair", response |-> ResponseText(resp), toolCalls |-> log]
    ELSE [kind |-> "text", response |-> ResponseText(resp), toolCalls |-> <<>>]

Rejected(e) == [kind |-> "error", response |-> e, toolCalls |-> <<>>]

\* ------------------------------------------------------------- Provider
\* ToolCallFunction.arguments is a string: the text of a JSON object, or a
\* text serde_json cannot read
JsonText(pairs) == [parses |-> TRUE, pairs |-> pairs]

NotJson == [parses |-> FALSE, pairs |-> <<>>]

ToolCallFunction(name, arguments) == [name |-> name, arguments |-> arguments]

\* OpenAIMessage.tool_calls is an Option<Vec<ToolCall>>
NoToolCalls == [some |-> FALSE, calls |-> <<>>]

SomeToolCalls(tcs) == [some |-> TRUE, calls |-> tcs]

OpenAIMessage(content, native) == [content |-> content, tool_calls |-> native]

\* Ok(result.choices[0].message.content.clone())
chat_openai(message) == message.content

\* the first native call alone, written as a JSON object of name and
\* arguments; the content when there is none
chat_ollama(message) ==
    IF message.tool_calls.some /\ message.tool_calls.calls # <<>>
    THEN LET tc   == message.tool_calls.calls[1]
             args == IF tc.arguments.parses THEN tc.arguments.pairs ELSE <<>>
         IN  <<Seg("json", tc.name, args)>>
    ELSE message.content

\* Provider::chat, for the two providers that read an OpenAIResponse
Provider_chat(self, message) ==
    CASE self = "OpenAI" -> chat_openai(message)
      [] self = "Ollama" -> chat_ollama(message)

\* no answer received yet from the backend
WireIdle ==
    /\ provider = "OpenAI"
    /\ backend_message = OpenAIMessage(<<>>, NoToolCalls)

\* no call made yet on the SecurityManager
NoAction == [type |-> "None"]

GateIdle == gate_call = [op |-> "none", arg |-> NoAction] /\ gate_result = None

\* no call made yet on the MemorySystem
NoCall == [op |-> "none", arg |-> "", n |-> 0, len |-> 0]

\* MemorySystem::new(MemoryConfig::default()) over an empty localStorage
DefaultMemoryConfig == MemoryConfig("indexeddb", 1000)

MemoryFresh ==
    /\ memory = MemorySystem_new(DefaultMemoryConfig)
    /\ storage = EmptyStorage
    /\ clock = 0
    /\ mem_call = NoCall
    /\ mem_result = [ok |-> TRUE, value |-> <<>>]

Init ==
    /\ WireIdle
    /\ chat = with_system_prompt(build_system_prompt)
    /\ security = SecurityManager_new(DefaultSecurityConfig)
    /\ pc = "idle"
    /\ verbose = FALSE
    /\ current_messages = <<>>
    /\ response = <<>>
    /\ tool_calls = <<>>
    /\ iterations = 0
    /\ calls = <<>>
    /\ next_call = 0
    /\ tool_result = <<>>
    /\ batches = <<>>
    /\ reply = NoReply
    /\ outcomes = <<>>
    /\ tool_results = <<>>
    /\ untrimmed = <<>>
    /\ result = Pending
    /\ provider_calls = 0
    /\ executed = <<>>
    /\ turns = 0
    /\ varied = 0
    /\ GateIdle
    /\ MemoryFresh

\* chat_verbose up to its first await: the user message is stored, the
\* conversation is cloned and the provider is called
StartTurn(message, v) ==
    /\ UNCHANGED <<gateVars, memVars, wireVars>>
    /\ turns < MaxTurns
    /\ varied + Cost(Chars(message) = UserLen) <= MaxVaried
    /\ varied' = varied + Cost(Chars(message) = UserLen)
    /\ turns' = turns + 1
    /\ chat' = add_user(chat, message)
    /\ verbose' = v
    /\ current_messages' = chat'
    /\ tool_calls' = <<>>
    /\ iterations' = 0
    /\ calls' = <<>>
    /\ next_call' = 0
    /\ tool_result' = <<>>
    /\ batches' = <<>>
    /\ reply' = NoReply
    /\ outcomes' = <<>>
    /\ tool_results' = <<>>
    /\ untrimmed' = <<>>
    /\ result' = Pending
    /\ provider_calls' = 1
    /\ executed' = <<>>
    /\ pc' = "await_provider"
    /\ UNCHANGED <<security, response>>

\* a turn begun while no other turn is in flight
ChatVerbose(message, v) ==
    /\ pc \in {"idle", "done"}
    /\ StartTurn(message, v)

\* a failed provider call that is made again
ProviderErr_retry ==
    /\ UNCHANGED <<gateVars, memVars, wireVars>>
    /\ pc = "await_provider"
    /\ reply' = Err(Opaque("<provider error>", ErrLen))
    /\ provider_calls' = provider_calls + 1
    /\ UNCHANGED <<chat, security, pc, verbose, current_messages, response, tool_calls,
                   iterations, calls, next_call, tool_result, batches, outcomes,
                   tool_results, untrimmed, result, executed, turns, varied>>

\* provider.chat fails: the ? operator rejects the promise
ProviderErr ==
    /\ UNCHANGED <<gateVars, memVars, wireVars>>
    /\ pc = "await_provider"
    /\ reply' = Err(Opaque("<provider error>", ErrLen))
    /\ result' = Rejected(reply'.text)
    /\ pc' = "done"
    /\ UNCHANGED <<chat, security, verbose, current_messages, response, tool_calls,
                   iterations, calls, next_call, tool_result, batches, outcomes,
                   tool_results, untrimmed, provider_calls, executed, turns, varied>>

\* provider.chat answers: the loop head, the parse, and either the return
\* or the first execute_tool call of the iteration
ProviderOk(resp) ==
    /\ UNCHANGED <<gateVars, memVars, wireVars>>
    /\ pc = "await_provider"
    /\ varied + Cost(resp \in {FinalAnswer, SearchStep}) <= MaxVaried
    /\ varied' = varied + Cost(resp \in {FinalAnswer, SearchStep})
    /\ reply' = Ok(ResponseText(resp))
    /\ response' = resp
    /\ IF LoopContinues(iterations)
       THEN /\ iterations' = iterations + 1
            /\ calls' = parse_all_tool_calls(resp)
            /\ IF calls' = <<>>
               THEN /\ result' = Resolve(verbose, resp, tool_calls)
                    /\ pc' = "done"
                    /\ UNCHANGED <<tool_calls, executed, next_call, tool_results, outcomes>>
               ELSE /\ tool_results' = <<>>
                    /\ outcomes' = <<>>
                    /\ next_call' = 1
                    /\ tool_calls' = LogCall(tool_calls, calls'[1])
                    /\ executed' = Invoke(executed, iterations', calls'[1])
                    /\ pc' = "await_tool"
                    /\ UNCHANGED result
       ELSE /\ result' = Resolve(verbose, resp, tool_calls)
            /\ pc' = "done"
            /\ UNCHANGED <<iterations, calls, tool_calls, executed, next_call,
                           tool_results, outcomes>>
    /\ UNCHANGED <<chat, security, verbose, current_messages, tool_result, batches,
                   untrimmed, provider_calls, turns>>

\* execute_tool returns: the result is formatted and pushed; then either the
\* next call of the iteration is executed, or the two messages are pushed,
\* the conversation is trimmed and the provider is called again
ToolReturn(outcome) ==
    /\ UNCHANGED <<gateVars, memVars, wireVars>>
    /\ pc = "await_tool"
    /\ varied + Cost(outcome.ok /\ Chars(outcome.text) = ShortLen) <= MaxVaried
    /\ varied' = varied + Cost(outcome.ok /\ Chars(outcome.text) = ShortLen)
    /\ outcomes' = Append(outcomes, outcome)
    /\ tool_result' = ToolResultText(outcome)
    /\ batches' = Batches(tool_result')
    /\ tool_results' = tool_results \o ResultEntries(calls[next_call].name, tool_result')
    /\ IF next_call < Len(calls)
       THEN /\ next_call' = next_call + 1
            /\ tool_calls' = LogCall(tool_calls, calls[next_call + 1])
            /\ executed' = Invoke(executed, iterations, calls[next_call + 1])
            /\ UNCHANGED <<pc, current_messages, untrimmed, provider_calls>>
       ELSE /\ untrimmed' = PushStep(current_messages, ResponseText(response),
                                     tool_results')
            /\ current_messages' = Trim(untrimmed')
            /\ provider_calls' = provider_calls + 1
            /\ pc' = "await_provider"
            /\ UNCHANGED <<next_call, tool_calls, executed>>
    /\ UNCHANGED <<chat, security, verbose, response, iterations, calls, reply, result,
                   turns>>

\* clear_history, called between two turns
ClearHistory ==
    /\ UNCHANGED <<gateVars, memVars, wireVars>>
    /\ pc \in {"idle", "done"}
    /\ varied < MaxVaried
    /\ varied' = varied + 1
    /\ chat' = <<system(build_system_prompt)>>
    /\ UNCHANGED <<security, pc, verbose, current_messages, response, tool_calls,
                   iterations, calls, next_call, tool_result, batches, reply, outcomes,
                   tool_results, untrimmed, result, provider_calls, executed, turns>>

\* the outcomes the call in flight may have
Outcomes ==
    IF pc = "await_tool" THEN OutcomesOf(calls[next_call], Len(executed)) ELSE {}

Next ==
    \/ \E message \in UserTexts(turns + 1), v \in BOOLEAN : ChatVerbose(message, v)
    \/ ProviderErr
    \/ \E resp \in Responses : ProviderOk(resp)
    \/ \E outcome \in Outcomes : ToolReturn(outcome)
    \/ ClearHistory

Spec == Init /\ [][Next]_vars

\* the same agent with a model that answers with more calls than
\* max_tool_calls in one message
BurstNext ==
    \/ \E message \in UserTexts(turns + 1), v \in BOOLEAN : ChatVerbose(message, v)
    \/ ProviderErr
    \/ \E resp \in {FinalAnswer, ManyCalls} : ProviderOk(resp)
    \/ \E outcome \in Outcomes : ToolReturn(outcome)
    \/ ClearHistory

BurstSpec == Init /\ [][BurstNext]_vars

\* the same agent with calls that overlap.  The future of a turn owns clones
\* of the conversation, the configuration and the provider (lines 161-165)
\* and holds no reference to the agent, so chat_verbose can be called again
\* while an earlier future awaits; the working-copy variables then follow
\* the future of the latest call.
OverlapNext ==
    \/ \E message \in UserTexts(turns + 1), v \in BOOLEAN : ChatVerbose(message, v)
    \/ \E message \in UserTexts(turns + 1), v \in BOOLEAN :
           pc \in {"await_provider", "await_tool"} /\ StartTurn(message, v)
    \/ ProviderErr
    \/ \E resp \in {FinalAnswer, SearchStep} : ProviderOk(resp)
    \/ \E outcome \in Outcomes : ToolReturn(outcome)
    \/ ClearHistory

OverlapSpec == Init /\ [][OverlapNext]_vars

\* ------------------------------------------------- ResponseParser, alone
Query == <<<<"query", "X">>>>

\* the texts a model may give, made of up to MaxSegs segments
Texts ==
    LET Segments ==
            {Seg("text", "done ", <<>>),
             Seg("open", "", <<>>),
             Seg("close", "", <<>>),
             Seg("fence", "web_search", Query),
             Seg("fence", "delete_tool", <<<<"name", "notes">>>>),
             Seg("json", "web_search", Query),
             Seg("json", "calculate", <<<<"expression", "1+1">>>>),
             Seg("flat", "", <<<<"name", "web_search">>, <<"query", "X">>>>),
             Seg("flat", "", Query),
             Seg("xml", "web_search", Query)}
    IN  UNION {[1..n -> Segments] : n \in 1..MaxSegs}

ParseInit ==
    /\ WireIdle
    /\ response \in Texts
    /\ chat = with_system_prompt(build_system_prompt)
    /\ security = SecurityManager_new(DefaultSecurityConfig)
    /\ pc = "idle"
    /\ verbose = FALSE
    /\ current_messages = <<>>
    /\ tool_calls = <<>>
    /\ iterations = 0
    /\ calls = <<>>
    /\ next_call = 0
    /\ tool_result = <<>>
    /\ batches = <<>>
    /\ reply = NoReply
    /\ outcomes = <<>>
    /\ tool_results = <<>>
    /\ untrimmed = <<>>
    /\ result = Pending
    /\ provider_calls = 0
    /\ executed = <<>>
    /\ turns = 0
    /\ varied = 0
    /\ GateIdle
    /\ MemoryFresh

\* let tool_calls_found = Self::parse_all_tool_calls(&response)
ParseAllToolCalls ==
    /\ UNCHANGED <<gateVars, memVars, wireVars>>
    /\ pc = "idle"
    /\ pc' = "parsed"
    /\ calls' = parse_all_tool_calls(response)
    /\ UNCHANGED <<chat, security, verbose, current_messages, response, tool_calls,
                   iterations, next_call, tool_result, batches, reply, outcomes,
                   tool_results, untrimmed, result, provider_calls, executed, turns,
                   varied>>

ParseSpec == ParseInit /\ [][ParseAllToolCalls]_vars

\* ------------------------------------------- Provider and ResponseParser
\* what a backend may answer: a content, and no tool_calls field, an empty
\* one, or up to MaxNative native calls
ProviderInit ==
    /\ provider \in {"OpenAI", "Ollama"}
    /\ LET NativeCalls ==
               {ToolCallFunction("web_search", JsonText(Query)),
                ToolCallFunction("calculate", JsonText(<<<<"expression", "1+1">>>>)),
                ToolCallFunction("get_current_time", NotJson)}
       IN  backend_message \in
               {OpenAIMessage(content, native) :
                   content \in {<<>>, FinalAnswer, SearchStep},
                   native \in {NoToolCalls}
                              \cup {SomeToolCalls(tcs) :
                                       tcs \in UNION {[1..n -> NativeCalls] :
                                                         n \in 0..MaxNative}}}
    /\ chat = with_system_prompt(build_system_prompt)
    /\ security = SecurityManager_new(DefaultSecurityConfig)
    /\ pc = "await_provider"
    /\ verbose = FALSE
    /\ current_messages = <<>>
    /\ response = <<>>
    /\ tool_calls = <<>>
    /\ iterations = 0
    /\ calls = <<>>
    /\ next_call = 0
    /\ tool_result = <<>>
    /\ batches = <<>>
    /\ reply = NoReply
    /\ outcomes = <<>>
    /\ tool_results = <<>>
    /\ untrimmed = <<>>
    /\ result = Pending
    /\ provider_calls = 1
    /\ executed = <<>>
    /\ turns = 0
    /\ varied = 0
    /\ GateIdle
    /\ MemoryFresh

\* self.provider.chat(...) returns the text made of the backend's message
ProviderChat ==
    /\ UNCHANGED <<gateVars, memVars, wireVars>>
    /\ pc = "await_provider"
    /\ pc' = "idle"
    /\ response' = Provider_chat(provider, backend_message)
    /\ UNCHANGED <<chat, security, verbose, current_messages, tool_calls, iterations,
                   calls, next_call, tool_result, batches, reply, outcomes,
                   tool_results, untrimmed, result, provider_calls, executed, turns,
                   varied>>

ProviderNext == ProviderChat \/ ParseAllToolCalls

ProviderSpec == ProviderInit /\ [][ProviderNext]_vars

\* --------------------------------------------------- SecurityGate, alone
\* a ClaWasm on which no turn runs
TurnIdle ==
    /\ chat = with_system_prompt(build_system_prompt)
    /\ pc = "idle"
    /\ verbose = FALSE
    /\ current_messages = <<>>
    /\ response = <<>>
    /\ tool_calls = <<>>
    /\ iterations = 0
    /\ calls = <<>>
    /\ next_call = 0
    /\ tool_result = <<>>
    /\ batches = <<>>
    /\ reply = NoReply
    /\ outcomes = <<>>
    /\ tool_results = <<>>
    /\ untrimmed = <<>>
    /\ result = Pending
    /\ provider_calls = 0
    /\ executed = <<>>
    /\ turns = 0
    /\ varied = 0

ToolNames == {"web_search", "fetch_url"}

Urls ==
    {"https://example.com/page", "http://evil.example.com:8080/x", " other.org ",
     "ftp://example.com/x"}

\* the lists without repetition of at most MaxListLen entries
Lists(S) ==
    {list \in UNION {[1..n -> S] : n \in 0..MaxListLen} :
        \A i, j \in 1..Len(list) : i # j => list[i] # list[j]}

Configs ==
    LET Domains == {"example.com", "evil"}
    IN  [pairing_enabled       : BOOLEAN,
         sandbox_enabled       : BOOLEAN,
         allowed_domains       : Lists(Domains),
         blocked_domains       : Lists(Domains),
         allowed_tools         : Lists(ToolNames),
         blocked_tools         : Lists(ToolNames),
         max_tool_calls        : {5},
         require_tool_approval : BOOLEAN]

Actions ==
    {ToolCallAction(name, Value(Query)) : name \in ToolNames}
        \cup {FetchUrlAction(url) : url \in Urls}
        \cup {SaveDataAction("notes")}

\* a SecurityManager with any configuration and at most one approved action
GateInit ==
    /\ WireIdle
    /\ TurnIdle
    /\ GateIdle
    /\ MemoryFresh
    /\ \E config \in Configs, approved \in {{}} \cup {{a} : a \in Actions} :
          security = [SecurityManager_new(config) EXCEPT !.approved_actions = approved]

\* check_action(&action). The three calls of this specification take &self and
\* leave the manager as it is, so each manager is asked once.
CheckAction(action) ==
    /\ gate_call.op = "none"
    /\ gate_call' = [op |-> "check_action", arg |-> action]
    /\ gate_result' = check_action(security, action)
    /\ UNCHANGED <<turnVars, security, memVars, wireVars>>

\* is_tool_allowed(name)
IsToolAllowed(name) ==
    /\ gate_call.op = "none"
    /\ gate_call' = [op |-> "is_tool_allowed", arg |-> name]
    /\ gate_result' = is_tool_allowed(security, name)
    /\ UNCHANGED <<turnVars, security, memVars, wireVars>>

\* is_url_allowed(url)
IsUrlAllowed(url) ==
    /\ gate_call.op = "none"
    /\ gate_call' = [op |-> "is_url_allowed", arg |-> url]
    /\ gate_result' = is_url_allowed(security, url)
    /\ UNCHANGED <<turnVars, security, memVars, wireVars>>

GateNext ==
    \/ \E action \in Actions : CheckAction(action)
    \/ \E name \in ToolNames : IsToolAllowed(name)
    \/ \E url \in Urls : IsUrlAllowed(url)

GateSpec == GateInit /\ [][GateNext]_vars

\* ------------------------------------------- blocking a tool or a domain
\* block_tool(tool): pushed onto blocked_tools if it is not there, and taken
\* out of allowed_tools
BlockTool(tool) ==
    /\ gate_call' = [op |-> "block_tool", arg |-> tool]
    /\ gate_result' = None
    /\ security' =
          [security EXCEPT
             !.config.blocked_tools =
                 IF tool \in Range(@) THEN @ ELSE Append(@, tool),
             !.config.allowed_tools = SelectSeq(@, LAMBDA t : t # tool)]
    /\ UNCHANGED <<turnVars, memVars, wireVars>>

\* block_domain(domain), in the same way
BlockDomain(domain) ==
    /\ gate_call' = [op |-> "block_domain", arg |-> domain]
    /\ gate_result' = None
    /\ security' =
          [security EXCEPT
             !.config.blocked_domains =
                 IF domain \in Range(@) THEN @ ELSE Append(@, domain),
             !.config.allowed_domains = SelectSeq(@, LAMBDA d : d # domain)]
    /\ UNCHANGED <<turnVars, memVars, wireVars>>

BlockNext ==
    \/ \E tool \in ToolNames : BlockTool(tool)
    \/ \E domain \in {"example.com", "evil"} : BlockDomain(domain)

BlockSpec == GateInit /\ [][BlockNext]_vars

\* ------------------------------------------------ extract_domain, alone
\* extract_domain(url), for a url written as scheme, host, port and path
ExtractDomain(scheme, host, port, path) ==
    /\ gate_call.op = "none"
    /\ gate_call' = [op  |-> "extract_domain",
                     arg |-> [scheme |-> scheme, host |-> host, port |-> port, path |-> path]]
    /\ gate_result' = extract_domain(scheme \o host \o port \o path)
    /\ UNCHANGED <<turnVars, security, memVars, wireVars>>

DomainSpec ==
    Init /\ [][\E scheme \in {"", "http://", "https://"},
                  host \in {"example.com", "sub.example.org", "localhost", "127.0.0.1",
                            "[::1]"},
                  port \in {"", ":8080"},
                  path \in {"", "/", "/a/b:c", "/x?u=http://y.z/"} :
                   ExtractDomain(scheme, host, port, path)]_vars

\* ---------------------------------------------- the approval workflow
ApprovalActions ==
    {ToolCallAction("web_search", Value(Query)),
     FetchUrlAction("https://en.wikipedia.org/wiki/X"),
     SaveDataAction("notes")}

Registered == security.pending_approvals \cup security.approved_actions
                  \cup security.denied_actions

ApprovalInit ==
    /\ WireIdle
    /\ TurnIdle
    /\ GateIdle
    /\ MemoryFresh
    /\ \E pairing \in BOOLEAN, approval \in BOOLEAN :
          security = SecurityManager_new(
                         [DefaultSecurityConfig EXCEPT !.pairing_enabled = pairing,
                                                       !.require_tool_approval = approval])

\* check_action(&action), by the caller of the workflow
Check(action) ==
    /\ gate_call' = [op |-> "check_action", arg |-> action]
    /\ gate_result' = check_action(security, action)
    /\ UNCHANGED <<turnVars, security, memVars, wireVars>>

\* add_pending_action(action): returns the identity
AddPendingAction(action) ==
    /\ action \in Registered \/ Cardinality(Registered) < MaxPending
    /\ gate_call' = [op |-> "add_pending_action", arg |-> action]
    /\ gate_result' = generate_action_id(action)
    /\ security' = add_pending_action(security, action)
    /\ UNCHANGED <<turnVars, memVars, wireVars>>

\* approve_action(action_id)
ApproveAction(action_id) ==
    /\ gate_call' = [op |-> "approve_action", arg |-> action_id]
    /\ gate_result' = PendingResult(security, action_id)
    /\ security' = approve_action(security, action_id)
    /\ UNCHANGED <<turnVars, memVars, wireVars>>

\* deny_action(action_id)
DenyAction(action_id) ==
    /\ gate_call' = [op |-> "deny_action", arg |-> action_id]
    /\ gate_result' = PendingResult(security, action_id)
    /\ security' = deny_action(security, action_id)
    /\ UNCHANGED <<turnVars, memVars, wireVars>>

\* clear_approvals()
ClearApprovals ==
    /\ gate_call' = [op |-> "clear_approvals", arg |-> NoAction]
    /\ gate_result' = None
    /\ security' = SecurityManager_new(security.config)
    /\ UNCHANGED <<turnVars, memVars, wireVars>>

ApprovalNext ==
    \/ \E action \in ApprovalActions : Check(action)
    \/ \E action \in ApprovalActions : AddPendingAction(action)
    \/ \E action \in ApprovalActions : ApproveAction(generate_action_id(action))
    \/ \E action \in ApprovalActions : DenyAction(generate_action_id(action))
    \/ ClearApprovals

ApprovalSpec == ApprovalInit /\ [][ApprovalNext]_vars

\* ------------------------------------------------- the MemoryStore alone
\* A MemorySystem over the page's localStorage, driven by its callers:
\* save, recall, delete and clear in any order, while the clock runs.
\* window and localStorage are present and set_item succeeds.
\* Vec::remove(0) on an empty list: the save panics
Panicked == [ok |-> FALSE, value |-> <<"panic">>]

\* Ok(...), with what the call hands back: the id of a save, the results of
\* a recall
Returned(value) == [ok |-> TRUE, value |-> value]

\* a caller can go on while no call has panicked and the budget lasts
Callable == mem_result.ok /\ mem_call.n < MaxOps

Called(op, arg) ==
    [op |-> op, arg |-> arg, n |-> mem_call.n + 1, len |-> Len(memory.entries)]

MemoryInit ==
    /\ WireIdle
    /\ TurnIdle
    /\ security = SecurityManager_new(DefaultSecurityConfig)
    /\ GateIdle
    \* max_entries is a usize: zero is a capacity too
    /\ \E backend \in {"indexeddb", "none"}, capacity \in 0..MaxCapacity :
           memory = MemorySystem_new(MemoryConfig(backend, capacity))
    /\ storage = EmptyStorage
    /\ clock = 0
    /\ mem_call = NoCall
    /\ mem_result = Returned(<<>>)

\* MemorySystem::save
Save(content) ==
    /\ UNCHANGED <<turnVars, security, gateVars, clock, wireVars>>
    /\ Callable
    /\ mem_call' = Called("save", content)
    /\ LET id    == generate_id(clock)
           entry == MemoryEntry(id, content, timestamp(clock))
           full  == Len(memory.entries) >= memory.config.max_entries
       IN  IF full /\ memory.entries = <<>>
           THEN /\ mem_result' = Panicked
                /\ UNCHANGED <<memory, storage>>
           ELSE /\ memory' = [memory EXCEPT !.entries = Saved(memory, content, clock)]
                /\ storage' = IF memory.config.backend = "indexeddb"
                              THEN persist(storage, entry)
                              ELSE storage
                /\ mem_result' = Returned(<<id>>)

\* MemorySystem::recall
Recall(query, limit) ==
    /\ UNCHANGED <<turnVars, security, gateVars, clock, storage, wireVars>>
    /\ Callable
    /\ mem_call' = Called("recall", [query |-> query, limit |-> limit])
    /\ LET loaded  == IF memory.entries = <<>>
                      THEN load_from_indexeddb(storage)
                      ELSE memory.entries
           results == Ranked(memory.config, loaded, query)
           top     == SubSeq(results, 1, Min(limit, Len(results)))
       IN  /\ memory' = [memory EXCEPT
                            !.entries = TouchAll(loaded, top, 1, timestamp(clock))]
           /\ mem_result' = Returned(top)

\* MemorySystem::delete
Delete(id) ==
    /\ UNCHANGED <<turnVars, security, gateVars, clock, wireVars>>
    /\ Callable
    /\ mem_call' = Called("delete", id)
    /\ memory' = [memory EXCEPT !.entries = SelectSeq(@, LAMBDA e : e.id # id)]
    \* on the storage the item and its id in the index go
    /\ storage' = [index |-> SelectSeq(storage.index, LAMBDA i : i # id),
                   items |-> [i \in DOMAIN storage.items \ {id} |-> storage.items[i]]]
    /\ mem_result' = Returned(<<>>)

\* MemorySystem::clear
Clear ==
    /\ UNCHANGED <<turnVars, security, gateVars, clock, wireVars>>
    /\ Callable
    /\ mem_call' = Called("clear", "")
    /\ memory' = [memory EXCEPT !.entries = <<>>]
    \* on the storage the items the index names go, and the index
    /\ storage' = [index |-> <<>>,
                   items |-> [i \in DOMAIN storage.items \ Range(storage.index) |->
                                 storage.items[i]]]
    /\ mem_result' = Returned(<<>>)

\* a millisecond goes by
Tick ==
    /\ UNCHANGED <<turnVars, security, gateVars, memory, storage, mem_call, mem_result, wireVars>>
    /\ clock < MaxClock
    /\ clock' = clock + 1

MemoryNext ==
    \/ \E content \in Contents : Save(content)
    \/ \E query \in Queries, limit \in {1, MaxLimit} : Recall(query, limit)
    \/ \E id \in {e.id : e \in Range(memory.entries)} \cup Range(storage.index) : Delete(id)
    \/ Clear
    \/ Tick

MemorySpec == MemoryInit /\ [][MemoryNext]_vars

\* ------------------------------------------ a save whose persist fails
\* MemorySystem::save with the IndexedDB backend and a persist_to_indexeddb
\* that returns Err: at "window" there is no window or no localStorage
\* (lines 265-268), at "item" set_item of the entry throws (line 274), at
\* "index" set_item of memory_index throws (line 285).  The ? of line 130
\* hands the error to the caller, who may go on.
SaveFails(content, at) ==
    /\ UNCHANGED <<turnVars, security, gateVars, clock, wireVars>>
    /\ mem_result # Panicked
    /\ mem_call.n < MaxOps
    /\ memory.config.backend = "indexeddb"
    /\ memory.config.max_entries >= 1
    /\ at = "index" => generate_id(clock) \notin Range(storage.index)
    /\ mem_call' = Called("save", content)
    /\ memory' = [memory EXCEPT !.entries = Saved(memory, content, clock)]
    /\ storage' =
          IF at = "index"
          THEN [storage EXCEPT
                  !.items = persist(storage, MemoryEntry(generate_id(clock), content,
                                                         timestamp(clock))).items]
          ELSE storage
    /\ mem_result' = [ok |-> FALSE, value |-> <<at>>]

FailNext ==
    \/ \E content \in Contents : Save(content)
    \/ \E content \in Contents, at \in {"window", "item", "index"} : SaveFails(content, at)
    \/ Tick

FailSpec == MemoryInit /\ [][FailNext]_vars

\* ------------------------------------- a MemorySystem on a reloaded page
\* localStorage outlives the page: what an earlier session persisted, one
\* save a millisecond from millisecond 0 on, is there when the next
\* MemorySystem is built
SessionInit ==
    /\ WireIdle
    /\ TurnIdle
    /\ security = SecurityManager_new(DefaultSecurityConfig)
    /\ GateIdle
    /\ \E capacity \in 1..MaxCapacity :
           memory = MemorySystem_new(MemoryConfig("indexeddb", capacity))
    /\ \E contents \in [1..MaxStored -> Contents] :
           LET RECURSIVE After(_)
               After(k) ==
                   IF k = 0 THEN EmptyStorage
                   ELSE persist(After(k - 1),
                                MemoryEntry(generate_id(k - 1), contents[k],
                                            timestamp(k - 1)))
           IN  storage = After(Len(contents))
    /\ clock = MaxStored
    /\ mem_call = NoCall
    /\ mem_result = Returned(<<>>)

SessionSpec == SessionInit /\ [][MemoryNext]_vars

\* ---------------------------------------------- extract_keywords, alone
\* the texts handed to extract_keywords: up to MaxWords words, with and
\* without punctuation, separated by one space
KeywordInit ==
    /\ WireIdle
    /\ TurnIdle
    /\ security = SecurityManager_new(DefaultSecurityConfig)
    /\ GateIdle
    /\ memory = MemorySystem_new(DefaultMemoryConfig)
    /\ storage = EmptyStorage
    /\ clock = 0
    /\ LET Words == {"Rust", "notes", "wasm,", "go!", "the.", "is", "C++", "--"}
           KeywordTexts ==
               {""} \cup Words
                    \cup (IF MaxWords < 2 THEN {}
                          ELSE {first \o " " \o second : first \in Words, second \in Words})
       IN  \E text \in KeywordTexts : mem_call = [NoCall EXCEPT !.arg = text]
    /\ mem_result = Returned(<<>>)

\* extract_keywords(query) and extract_keywords(&entry.content), as recall
\* calls them
ExtractKeywords ==
    /\ UNCHANGED <<turnVars, security, gateVars, memory, storage, clock, wireVars>>
    /\ mem_call.op = "none"
    /\ mem_call' = Called("extract_keywords", mem_call.arg)
    /\ mem_result' = Returned(extract_keywords(mem_call.arg))

KeywordSpec == KeywordInit /\ [][ExtractKeywords]_vars

\* ================================================================ claims
CallsOf(done) == [i \in 1..Len(done) |-> done[i].call]

InIteration(n) == SelectSeq(executed, LAMBDA e : e.iteration = n)

RECURSIVE EntriesFrom(_, _, _)
EntriesFrom(cs, outs, k) ==
    IF k > Len(cs) THEN <<>>
    ELSE ResultEntries(cs[k].name, ToolResultText(outs[k])) \o EntriesFrom(cs, outs, k + 1)

RECURSIVE BodiesFrom(_, _)
BodiesFrom(bs, k) ==
    IF k > Len(bs) THEN <<>> ELSE Cat(bs[k].batch, BodiesFrom(bs, k + 1))

PartLabel(k, n) == "[Part " \o ToString(k) \o "/" \o ToString(n) \o "]\n"

InTurn == pc \in {"await_provider", "await_tool"}

\* C1: every tool call a turn executes has been cleared by the SecurityGate:
\* no call is executed for which check_action answers Deny or RequireApproval.
C1_ExecutedCallsAllowed ==
    \A i \in 1..Len(executed) :
        check_action(security,
                     ToolCallAction(executed[i].call.name,
                                    executed[i].call.arguments)).decision = "Allow"

\* the counters of a turn stay within the cap
C2_Bounded ==
    /\ iterations <= MaxIterations
    /\ provider_calls <= MaxIterations + 1
    /\ \A i \in 1..Len(executed) : executed[i].iteration \in 1..MaxIterations
    /\ (pc = "await_tool" => provider_calls = iterations /\ next_call \in 1..Len(calls))
    /\ (pc = "await_provider" => provider_calls = iterations + 1)

\* a step of a turn ends it, starts the next iteration, or moves on in the
\* calls of the current one
C2_Advances ==
    (InTurn /\ <<pc, iterations, next_call>>' # <<pc, iterations, next_call>>)
    => \/ pc' = "done"
       \/ /\ pc = "await_provider"
          /\ pc' = "await_tool"
          /\ iterations' = iterations + 1
       \/ /\ pc = "await_tool"
          /\ iterations' = iterations
          /\ \/ pc' = "await_provider"
             \/ pc' = "await_tool" /\ next_call' = next_call + 1

\* C2: a turn runs at most 10 tool-execution iterations and makes at most 11
\* provider calls, and every step of a turn either ends it, starts the next
\* iteration or moves on in the calls of the current one, so the turn ends
\* whatever the model and the tools answer.
C2_TurnTerminates == [] C2_Bounded /\ [][C2_Advances]_vars

C2_CapReached ==
    /\ pc = "done"
    /\ iterations = MaxIterations
    /\ provider_calls = MaxIterations + 1
    /\ Len(InIteration(MaxIterations)) > 0

\* C3: when the first response of a turn parses to no tool call, the turn is
\* over: nothing was executed, the provider is not called again, and the
\* promise holds the text the provider returned, as text.
C3_PlainFirstAnswer ==
    /\ [] ((iterations = 1 /\ provider_calls = 1 /\ reply.ok
               /\ parse_all_tool_calls(response) = <<>>)
           => /\ pc = "done"
              /\ executed = <<>>
              /\ result = [kind |-> "text", response |-> reply.text, toolCalls |-> <<>>])
    /\ [][(pc = "done" /\ pc' = "done")
            => UNCHANGED <<provider_calls, executed, result>>]_vars

C3_PlainAnswerInVerbose ==
    /\ pc = "done"
    /\ verbose
    /\ iterations = 1
    /\ provider_calls = 1
    /\ reply.ok
    /\ result.kind = "text"

\* C4: when execute_tool fails, the turn goes on: the error text takes the
\* place of the result among the iteration's results, the next call of the
\* response is executed, and after the last one the results are sent to the
\* provider.
C4_ToolFailureInline ==
    [][(pc = "await_tool" /\ Len(outcomes') = Len(outcomes) + 1
           /\ ~ outcomes'[Len(outcomes')].ok)
        => LET e == outcomes'[Len(outcomes')].text
           IN  /\ result' = Pending
               /\ tool_result' = ErrorText(e)
               /\ tool_results' = tool_results
                                    \o ResultEntries(calls[next_call].name, ErrorText(e))
               /\ IF next_call < Len(calls)
                  THEN /\ pc' = "await_tool"
                       /\ executed' = Append(executed, [iteration |-> iterations,
                                                        call |-> calls[next_call + 1]])
                  ELSE /\ pc' = "await_provider"
                       /\ provider_calls' = provider_calls + 1
                       /\ untrimmed'[Len(untrimmed')]
                            = user(Join(tool_results', Separator))]_vars

C4_FailureThenNextCall ==
    /\ pc = "await_provider"
    /\ Len(outcomes) = 2
    /\ ~ outcomes[1].ok
    /\ outcomes[2].ok
    /\ Len(InIteration(iterations)) = 2

\* C5: when provider.chat fails, on the first call or on a later one, the
\* turn is over with that error as its outcome; the call is not repeated and
\* no tool is executed afterwards.
C5_ProviderFailureSurfaces ==
    /\ [] (~ reply.ok => pc = "done" /\ result = Rejected(reply.text))
    /\ [][(pc = "await_provider" /\ ~ reply'.ok)
            => provider_calls' = provider_calls /\ executed' = executed]_vars
    /\ [][(pc = "done" /\ ~ reply.ok /\ pc' = "done")
            => UNCHANGED <<provider_calls, executed, result>>]_vars

C5_FailureAfterTools ==
    /\ pc = "done"
    /\ ~ reply.ok
    /\ provider_calls >= 2
    /\ executed # <<>>

\* C6: in an iteration whose response parses to c1..ck, execute_tool is
\* invoked once per call in parsed order; then the conversation grows by
\* exactly two messages, the Assistant message with the response text and
\* one User message with the results of c1..ck in that order joined by the
\* separator; the provider is called again only in that step.
C6_IterationOrder ==
    /\ [] ((pc = "await_provider" /\ provider_calls > 1)
           => LET k == Len(calls)
                  n == Len(untrimmed)
              IN  /\ calls = parse_all_tool_calls(response)
                  /\ InIteration(iterations)
                       = [i \in 1..k |-> [iteration |-> iterations, call |-> calls[i]]]
                  /\ Len(outcomes) = k
                  /\ n >= 2
                  /\ untrimmed[n - 1] = assistant(reply.text)
                  /\ untrimmed[n]
                       = user(Join(EntriesFrom(calls, outcomes, 1), Separator)))
    /\ [][(pc = "await_tool" /\ pc' = "await_provider")
            => /\ Len(untrimmed') = Len(current_messages) + 2
               /\ SubSeq(untrimmed', 1, Len(current_messages)) = current_messages]_vars
    /\ [][(InTurn /\ provider_calls' # provider_calls)
            => /\ pc = "await_tool"
               /\ next_call = Len(calls)
               /\ provider_calls' = provider_calls + 1
               /\ untrimmed' # untrimmed]_vars

C6_TwoCallsAnswered ==
    /\ pc = "await_provider"
    /\ provider_calls > 2
    /\ Len(calls) = 2
    /\ Len(outcomes) = 2
    /\ Len(untrimmed) >= 6

\* C7: a tool result of more than 800 characters is cut into
\* n = ceil(length/800) batches labelled Part 1/n .. Part n/n in this order,
\* each of at most 800 characters, whose bodies put together in order are
\* the result; a result of at most 800 characters is passed in one piece.
C7_ChunksComplete ==
    (InTurn /\ outcomes # <<>>)
    => LET len  == Chars(tool_result)
           n    == Len(batches)
           m    == Len(tool_results)
           name == calls[Len(outcomes)].name
       IN  IF len > batch_size
           THEN /\ n * batch_size >= len
                /\ (n - 1) * batch_size < len
                /\ \A k \in 1..n : /\ batches[k].batch_idx = k
                                   /\ batches[k].batch_num = n
                                   /\ Chars(batches[k].batch) <= batch_size
                                   /\ Chars(batches[k].batch) > 0
                /\ BodiesFrom(batches, 1) = tool_result
                /\ m >= n
                /\ tool_results[m - n + 1]
                     = Cat(Lit("Tool '" \o name \o "' (split into " \o ToString(n)
                                 \o " parts):\n"),
                           Cat(Lit(PartLabel(1, n)), batches[1].batch))
                /\ \A k \in 2..n :
                     tool_results[m - n + k] = Cat(Lit(PartLabel(k, n)), batches[k].batch)
           ELSE /\ batches = <<>>
                /\ m >= 1
                /\ tool_results[m] = Cat(Lit("Tool '" \o name \o "' returned:\n"), tool_result)

C7_SplitInFive ==
    /\ InTurn
    /\ outcomes # <<>>
    /\ Len(batches) >= 5

\* C8: after the 10th tool-execution iteration the response the provider
\* returns ends the turn: it is the turn's final text as returned, and no
\* tool call of it is executed or logged.
C8_CapReturnsRaw ==
    [][(pc = "await_provider" /\ provider_calls = MaxIterations + 1 /\ pc' # pc
           /\ reply'.ok)
        => /\ pc' = "done"
           /\ executed' = executed
           /\ tool_calls' = tool_calls
           /\ result'.kind \in {"text", "pair"}
           /\ result'.response = reply'.text]_vars

C8_UnexecutedCallsReturned ==
    /\ pc = "done"
    /\ reply.ok
    /\ provider_calls = MaxIterations + 1
    /\ parse_all_tool_calls(response) # <<>>
    /\ result.response = ResponseText(response)
    /\ Len(executed) = MaxIterations

\* C9 as stated: a verbose turn always returns the pair of the final text
\* and the log of the calls executed in the turn, in execution order.
C9_VerboseAlwaysPair ==
    (pc = "done" /\ verbose /\ reply.ok)
    => /\ result.kind = "pair"
       /\ result.response = reply.text
       /\ result.toolCalls = CallsOf(executed)

\* C9 amended: a verbose turn that executed at least one tool call returns
\* the pair of the final text and the log, and the log holds exactly the
\* calls executed across the iterations of the turn, in execution order; a
\* verbose turn that executed no tool call returns the text alone.
C9_VerbosePairWhenToolsRan ==
    (pc = "done" /\ verbose /\ reply.ok)
    => IF executed # <<>>
       THEN result = [kind |-> "pair", response |-> reply.text,
                      toolCalls |-> CallsOf(executed)]
       ELSE result = [kind |-> "text", response |-> reply.text, toolCalls |-> <<>>]

C9_LogAcrossIterations ==
    /\ pc = "done"
    /\ verbose
    /\ result.kind = "pair"
    /\ Len(result.toolCalls) = 3
    /\ iterations = 3

\* C10: trimming keeps every System message as it is, so every conversation
\* sent to the provider holds a System message.
C10_SystemKept ==
    /\ (untrimmed # <<>>
          => SelectSeq(current_messages, IsSystem) = SelectSeq(untrimmed, IsSystem))
    /\ (pc = "await_provider"
          => \E i \in 1..Len(current_messages) : IsSystem(current_messages[i]))

C10_TrimDropped ==
    /\ pc = "await_provider"
    /\ untrimmed # <<>>
    /\ Len(current_messages) < Len(untrimmed)

NotSystem(m) == ~IsSystem(m)

\* what the last trim started from and what it left, System messages aside
Before == SelectSeq(untrimmed, NotSystem)

Kept == SelectSeq(current_messages, NotSystem)

Trimmed == untrimmed # <<>> /\ NeedsTrim(untrimmed)

\* C11: after a trim of an over-threshold conversation the contents of the
\* remaining non-System messages add up to at most 80,000 characters.
C11_BudgetKept == Trimmed => total_size(Kept) <= max_size

C11_TrimKeptPart ==
    /\ pc = "await_provider"
    /\ Trimmed
    /\ Kept # <<>>
    /\ Len(Kept) < Len(Before)
    /\ total_size(Before) > max_size

\* C12: after a trim the conversation is the System messages followed by the
\* longest suffix of the non-System messages whose contents add up to at
\* most 80,000 characters, in their original order: messages are lost oldest
\* first and none is kept while a newer one is dropped.
C12_LongestSuffix ==
    Trimmed =>
        LET before == Before
            kept   == Kept
            size   == total_size(kept)
            n      == Len(kept)
        IN  /\ current_messages = SelectSeq(untrimmed, IsSystem) \o kept
            /\ n <= Len(before)
            /\ kept = SubSeq(before, Len(before) - n + 1, Len(before))
            /\ size <= max_size
            /\ n < Len(before)
                  => size + Chars(before[Len(before) - n].content) > max_size

\* a message that does not fit is dropped together with an older one that
\* would have fitted
C12_SmallOlderDropped ==
    /\ pc = "await_provider"
    /\ Trimmed
    /\ Len(Before) - Len(Kept) >= 2
    /\ total_size(Kept) + Chars(Before[1].content) <= max_size

Kinds(resp) == {resp[i].kind : i \in 1..Len(resp)}

Blocks(resp) == SelectSeq(resp, LAMBDA seg : seg.kind = "fence")

Distinct(seq) == \A i, j \in 1..Len(seq) : i # j => seq[i] # seq[j]

\* C13: a text whose only tool encoding is N distinct well-formed fenced
\* tool blocks parses to exactly N calls, in the order of the blocks.
C13_FencedBlocksInOrder ==
    (/\ pc = "parsed"
     /\ Kinds(response) \subseteq {"text", "open", "close", "fence"}
     /\ Distinct(Blocks(response)))
    => /\ Len(calls) = Len(Blocks(response))
       /\ \A i \in 1..Len(calls) :
             /\ calls[i].name = Blocks(response)[i].name
             /\ calls[i].arguments = Value(Blocks(response)[i].args)

\* C14: the parsed list never holds two calls with equal name and equal
\* arguments, whichever pass found them.
C14_NoEqualCalls ==
    pc = "parsed" => \A i, j \in 1..Len(calls) : i # j => ~SameCall(calls[i], calls[j])

Checked == gate_call.op = "check_action"

DomainOf(action) == extract_domain(action.url)

InList(domain, list) == \E d \in Range(list) : contains(domain[1], d)

BlockedUrl ==
    /\ Checked
    /\ gate_call.arg.type = "FetchUrl"
    /\ DomainOf(gate_call.arg) # <<>>
    /\ InList(DomainOf(gate_call.arg), security.config.blocked_domains)

\* C15, as stated: check(FetchUrl{url}) is Deny whenever the url's domain
\* matches an entry of blocked_domains, for every configuration.
C15_BlockedDomainDenied == BlockedUrl => gate_result.decision = "Deny"

\* C15: with the sandbox enabled, check(FetchUrl{url}) is Deny whenever the
\* url's domain contains an entry of blocked_domains, also when it matches
\* an entry of allowed_domains.
C15_BlockedDeniedInSandbox ==
    (BlockedUrl /\ security.config.sandbox_enabled) => gate_result.decision = "Deny"

C15_BlockedAndAllowed ==
    /\ BlockedUrl
    /\ security.config.sandbox_enabled
    /\ InList(DomainOf(gate_call.arg), security.config.allowed_domains)
    /\ gate_result.decision = "Deny"

ApprovalNeeded(sec, action) ==
    /\ sec.config.pairing_enabled
    /\ sec.config.require_tool_approval
    /\ generate_action_id(action) \notin sec.approved_actions

\* C16: a ToolCall whose name is missing from a non-empty allowed_tools is
\* answered Deny; one whose name is in allowed_tools and not in
\* blocked_tools, approval not being required, is answered Allow.
C16_ToolAllowlist ==
    (Checked /\ gate_call.arg.type = "ToolCall") =>
        LET name == gate_call.arg.name
        IN  /\ (/\ security.config.allowed_tools # <<>>
                /\ name \notin Range(security.config.allowed_tools))
                  => gate_result.decision = "Deny"
            /\ (/\ name \in Range(security.config.allowed_tools)
                /\ name \notin Range(security.config.blocked_tools)
                /\ ~ApprovalNeeded(security, gate_call.arg))
                  => gate_result = Allow

C16_DeniedAndAllowedTools ==
    /\ Checked
    /\ gate_call.arg = ToolCallAction("web_search", Value(Query))
    /\ gate_result = Allow
    /\ security.config.allowed_tools = <<"web_search">>
    /\ security.config.pairing_enabled
    /\ check_action(security, ToolCallAction("fetch_url", Value(Query))).decision = "Deny"

\* C17: an action that the sandbox and the allowlist let through is answered
\* RequireApproval exactly when pairing_enabled and require_tool_approval
\* are both true and its identity is not approved, and Allow otherwise.
C17_PairingDecides ==
    (Checked /\ gate_result.decision # "Deny") =>
        IF ApprovalNeeded(security, gate_call.arg)
        THEN gate_result.decision = "RequireApproval"
        ELSE gate_result = Allow

C17_ApprovedPasses ==
    /\ Checked
    /\ gate_result = Allow
    /\ security.config.pairing_enabled
    /\ security.config.require_tool_approval
    /\ gate_call.arg \in security.approved_actions
    /\ \E other \in Actions : check_action(security, other).decision = "RequireApproval"

\* C18, as stated: after check has answered RequireApproval for an action,
\* approve(id) with that action's identity puts it in the approved set and
\* the retried check answers Allow.
C18_ApproveAfterCheck ==
    [][(/\ Checked
        /\ gate_result.decision = "RequireApproval"
        /\ gate_call'.op = "approve_action"
        /\ gate_call'.arg = generate_action_id(gate_call.arg))
       => /\ gate_call.arg \in security'.approved_actions
          /\ check_action(security', gate_call.arg) = Allow]_vars

\* C18: approve(id) of a pending identity moves the action from pending into
\* the approved set and the retried check answers Allow; deny(id) of a
\* pending identity moves it into the denied set; approve(id) or deny(id) of
\* an identity that is not pending returns an error and changes nothing; an
\* approved action stays approved until clear_approvals is called.
C18_ApprovalWorkflow ==
    [][LET id      == gate_call'.arg
           pending == id \in security.pending_approvals
       IN  /\ (gate_call'.op = "approve_action" /\ pending)
                 => /\ gate_result' = "Ok"
                    /\ security'.pending_approvals = security.pending_approvals \ {id}
                    /\ security'.approved_actions = security.approved_actions \cup {id}
                    /\ security'.denied_actions = security.denied_actions
                    /\ check_action(security, id).decision = "RequireApproval"
                          => check_action(security', id) = Allow
           /\ (gate_call'.op = "deny_action" /\ pending)
                 => /\ gate_result' = "Ok"
                    /\ security'.pending_approvals = security.pending_approvals \ {id}
                    /\ security'.denied_actions = security.denied_actions \cup {id}
                    /\ security'.approved_actions = security.approved_actions
           /\ (gate_call'.op \in {"approve_action", "deny_action"} /\ ~pending)
                 => gate_result' = "Err" /\ security' = security
           /\ gate_call'.op # "clear_approvals"
                 => security.approved_actions \subseteq security'.approved_actions]_vars

C18_RetriedCheckAllowed ==
    /\ Checked
    /\ gate_result = Allow
    /\ security.config.pairing_enabled
    /\ security.config.require_tool_approval
    /\ gate_call.arg \in security.approved_actions
    /\ security.denied_actions # {}

\* C19: after any sequence of save, recall, delete and clear calls the
\* MemorySystem holds at most max_entries entries.
C19_AtMostMaxEntries == Len(memory.entries) <= memory.config.max_entries

\* ---- eviction on save
\* the step is a call of save
SaveStep == mem_call'.n = mem_call.n + 1 /\ mem_call'.op = "save"

\* the store holds max_entries entries when the call is made
AtCapacity == Len(memory.entries) = memory.config.max_entries

BagOf(seq) == [x \in Range(seq) |-> Cardinality({k \in DOMAIN seq : seq[k] = x})]

Dropping(seq, i) == SubSeq(seq, 1, i - 1) \o SubSeq(seq, i + 1, Len(seq))

AllButLast(seq) == SubSeq(seq, 1, Len(seq) - 1)

\* one entry of minimal accessed_at has gone, every other entry is still
\* held, and the entry of this call is held too
EvictedOldest ==
    /\ Len(memory'.entries) > 0
    /\ Len(memory'.entries) = Len(memory.entries)
    /\ memory'.entries[Len(memory'.entries)] =
           MemoryEntry(generate_id(clock), mem_call'.arg, timestamp(clock))
    /\ \E i \in 1..Len(memory.entries) :
           /\ \A j \in 1..Len(memory.entries) :
                  memory.entries[i].accessed_at <= memory.entries[j].accessed_at
           /\ BagOf(AllButLast(memory'.entries)) = BagOf(Dropping(memory.entries, i))

SavedAt(entry) == CHOOSE millis \in 0..MaxClock : generate_id(millis) = entry.id

SameScore(a, b) == a.num * b.den = b.num * a.den

\* C21: recall(query, limit) returns at most limit results, sorted by
\* descending score, and results of equal score come in the order their
\* entries were saved in.
C21_RecallOrdered ==
    mem_call.op = "recall" =>
        LET results == mem_result.value
        IN  /\ Len(results) <= mem_call.arg.limit
            /\ \A i, j \in 1..Len(results) :
                   i < j =>
                       /\ NotBelow(results[i].score, results[j].score)
                       /\ SameScore(results[i].score, results[j].score) =>
                              SavedAt(results[i].entry) <= SavedAt(results[j].entry)

\* the step is a call of recall
RecallStep == mem_call'.n = mem_call.n + 1 /\ mem_call'.op = "recall"

\* the entries the recall works on: the held ones, or the persisted ones
\* when none is held
Searched ==
    IF memory.entries = <<>> THEN load_from_indexeddb(storage) ELSE memory.entries

\* the entries of the results a recall returned
ReturnedEntries(results) == [i \in 1..Len(results) |-> results[i].entry]

\* the entries at the positions P of a list, as a bag
BagAt(seq, P) == [x \in {seq[k] : k \in P} |-> Cardinality({k \in P : seq[k] = x})]

\* C22: a recall adds exactly 1 to access_count and refreshes accessed_at of
\* exactly the entries it returns, one held entry for each result, and
\* leaves those two fields of every other entry as they were.
C22_RecallTouchesReturned ==
    [][RecallStep =>
          /\ Len(memory'.entries) = Len(Searched)
          /\ \E P \in SUBSET (1..Len(Searched)) :
                 /\ BagAt(Searched, P) = BagOf(ReturnedEntries(mem_result'.value))
                 /\ \A k \in 1..Len(Searched) :
                        memory'.entries[k] =
                            IF k \in P
                            THEN [Searched[k] EXCEPT !.accessed_at = timestamp(clock),
                                                     !.access_count = @ + 1]
                            ELSE Searched[k]]_vars

\* ---- the two yes/no questions
\* C23: is_tool_allowed(name) is false when name is in blocked_tools, and
\* otherwise true exactly when allowed_tools is empty or holds name;
\* is_url_allowed(url) applies the same rule to the domain extracted from the
\* url, an entry of blocked_domains or allowed_domains matching when the
\* domain contains it.
C23_YesNoRules ==
    /\ gate_call.op = "is_tool_allowed" =>
           gate_result =
               (/\ gate_call.arg \notin Range(security.config.blocked_tools)
                /\ \/ security.config.allowed_tools = <<>>
                   \/ gate_call.arg \in Range(security.config.allowed_tools))
    /\ gate_call.op = "is_url_allowed" =>
           LET domain == extract_domain(gate_call.arg)
           IN  gate_result =
                   (/\ ~InList(domain, security.config.blocked_domains)
                    /\ \/ security.config.allowed_domains = <<>>
                       \/ InList(domain, security.config.allowed_domains))

\* a url is refused for a blocked entry that is only a part of its domain,
\* though the domain matches the allowlist
C23_SubstringBlocked ==
    /\ gate_call.op = "is_url_allowed"
    /\ gate_result = FALSE
    /\ extract_domain(gate_call.arg)[1] \notin Range(security.config.blocked_domains)
    /\ InList(extract_domain(gate_call.arg), security.config.allowed_domains)

\* a url with a scheme other than the two extract_domain strips
OtherScheme(url) ==
    /\ contains(url, "://")
    /\ ~starts_with(trim(url), "https://")
    /\ ~starts_with(trim(url), "http://")

\* C26: a FetchUrl whose url has another scheme than http and https yields
\* no domain, so check never answers Deny for it: the only grounds to deny a
\* FetchUrl are the two domain lists.
C26_NoDomainNoDeny ==
    (/\ Checked
     /\ gate_call.arg.type = "FetchUrl"
     /\ OtherScheme(gate_call.arg.url))
        => gate_result.decision # "Deny"

\* ---- the trigger of the trim
\* C24: after a tool step the conversation is trimmed if and only if it has
\* more than 20 messages or more than 100,000 characters of content;
\* otherwise the conversation handed to the next provider call is the
\* untrimmed one.
C24_TrimOnlyOverThreshold ==
    untrimmed # <<>> =>
        IF Len(untrimmed) > 20 \/ total_size(untrimmed) > 100000
        THEN /\ current_messages = SelectSeq(untrimmed, IsSystem) \o Kept
             /\ total_size(Kept) <= 80000
        ELSE current_messages = untrimmed

\* a conversation of at most 20 messages is cut for its size alone
C24_TrimBySizeAlone ==
    /\ pc = "await_provider"
    /\ untrimmed # <<>>
    /\ Len(untrimmed) <= 20
    /\ total_size(untrimmed) > 100000
    /\ current_messages # untrimmed

\* ---- unbalanced braces, and the tag pattern
\* a brace that nothing closes, or that nothing opened, is in the text
Unbalanced == \E k \in 1..Len(response) : response[k].kind \in {"open", "close"}

\* C25: parsing never fails, and when the braces of the text are unbalanced
\* every complete tool-call object of the text is still extracted.
C25_CompleteCallsExtracted ==
    (pc = "parsed" /\ Unbalanced) =>
        \A k \in 1..Len(response) :
            response[k].kind \in {"fence", "json"} =>
                \E i \in 1..Len(calls) :
                    SameCall(calls[i], ToolCall(response[k].name, Value(response[k].args)))

\* what the fenced pass and the brace scan found together
FirstTwoPasses == ScanFrom(response, 1, 0, FencedFrom(response, 1))

\* C30: the tag pattern adds a call only when the fenced pass and the brace
\* scan found none, and then it adds at most one.
C30_FallbackOnlyWhenEmpty ==
    pc = "parsed" =>
        IF FirstTwoPasses # <<>>
        THEN calls = FirstTwoPasses
        ELSE Len(calls) <= 1

\* the two passes found nothing and the tag pattern gave the call
C30_FallbackUsed ==
    /\ pc = "parsed"
    /\ FirstTwoPasses = <<>>
    /\ Len(calls) = 1
    /\ \E k \in 1..Len(response) : response[k].kind = "xml" /\ calls[1].name = response[k].name

\* C27: the calls executed for one model response are never more than
\* SecurityConfig.max_tool_calls
C27_CallsPerResponseCapped ==
    \A n \in 1..MaxIterations :
        LET ExecutedIn == {i \in 1..Len(executed) : executed[i].iteration = n}
        IN  Cardinality(ExecutedIn) <= security.config.max_tool_calls

\* C28: when the backend's answer carries native tool calls, parsing the text
\* the provider returns gives back every one of them, name and arguments, in
\* their order
NativeList ==
    [i \in 1..Len(backend_message.tool_calls.calls) |->
        ToolCall(backend_message.tool_calls.calls[i].name,
                 Value(backend_message.tool_calls.calls[i].arguments.pairs))]

C28_NativeCallsRecovered ==
    (/\ pc = "parsed"
     /\ backend_message.tool_calls.calls # <<>>
     /\ \A i \in 1..Len(backend_message.tool_calls.calls) :
            backend_message.tool_calls.calls[i].arguments.parses)
        => calls = NativeList

\* C29: every keyword extract_keywords gives is lowercase, has no
\* punctuation, has at least 3 characters and is not a stop word
C29_KeywordsClean ==
    mem_call.op = "extract_keywords"
        => \A i \in 1..Len(mem_result.value) :
              LET keyword == mem_result.value[i]
              IN  /\ to_lowercase(keyword) = keyword
                  /\ only_alphanumeric(keyword) = keyword
                  /\ Len(keyword) >= 3
                  /\ keyword \notin stop_words

C32_DomainIsHost ==
    gate_call.op = "extract_domain" => gate_result = <<gate_call.arg.host>>

\* ---- approved and denied
\* C33: no action identity is in the approved set and in the denied set at
\* the same time, whatever calls of add_pending_action, approve_action,
\* deny_action and clear_approvals were made.
C33_ApprovedDeniedDisjoint ==
    security.approved_actions \cap security.denied_actions = {}

\* ---- blocking
\* C34: a call of block_tool or block_domain never widens access: a tool or
\* a URL that was refused before the call is refused after it.
C34_BlockingNeverWidens ==
    [][/\ \A name \in ToolNames :
             is_tool_allowed(security', name) => is_tool_allowed(security, name)
       /\ \A url \in Urls :
             is_url_allowed(security', url) => is_url_allowed(security, url)]_vars

\* ---- the index and the entries
\* C35: with the persistent backend, the ids recorded in the index are the
\* ids of the entries held in memory, after any calls of save, recall,
\* delete and clear.
C35_IndexMatchesMemory ==
    (memory.config.backend = "indexeddb" /\ mem_result.ok)
        => Range(storage.index) = {memory.entries[i].id : i \in 1..Len(memory.entries)}

\* ---- the ids of the entries
\* C36: the ids of the entries held in memory are pairwise distinct, after
\* any saves, two saves at the same clock reading included.
C36_IdsDistinct ==
    \A i, j \in 1..Len(memory.entries) :
        i # j => memory.entries[i].id # memory.entries[j].id

\* C37: the stored conversation is the System prompt followed by the user
\* messages of the turns begun since the history was last cleared, in call
\* order, and nothing else: no Assistant reply, no tool-result message and
\* no trimming of a turn, overlapping or not, reaches it
C37_StoredConversationIsUserMessages ==
    LET n == Len(chat) - 1
    IN  /\ chat[1] = system(build_system_prompt)
        /\ n <= turns
        /\ \A i \in 1..n : /\ chat[i + 1].role = "user"
                           /\ chat[i + 1].content \in UserTexts(turns - n + i)

\* the second turn has pushed replies and tool results and trimmed its
\* working copy while the stored conversation holds the two user messages
C37_WorkingCopyDiverged ==
    /\ turns = 2
    /\ Len(chat) = 3
    /\ untrimmed # <<>>
    /\ Trim(untrimmed) # untrimmed
    /\ current_messages = Trim(untrimmed)
    /\ \E i \in 1..Len(current_messages) : current_messages[i].role = "assistant"

\* C38: the boolean helpers and check_action never disagree: is_tool_allowed
\* answers true exactly when check_action does not deny a ToolCall of that
\* name, and is_url_allowed exactly when it does not deny a FetchUrl of
\* that url
C38_HelpersAgreeWithCheck ==
    /\ gate_call.op = "is_tool_allowed" =>
          (gate_result <=>
              check_action(security, ToolCallAction(gate_call.arg, Value(Query))).decision # "Deny")
    /\ gate_call.op = "is_url_allowed" =>
          (gate_result <=>
              check_action(security, FetchUrlAction(gate_call.arg)).decision # "Deny")

\* C39: a trim triggered by the number of messages alone, the non-System
\* contents adding up to at most 80,000 characters, drops no message: the
\* conversation sent on is the untrimmed one, of more than 20 messages
C39_CountTriggerDropsNothing ==
    (/\ untrimmed # <<>>
     /\ Len(untrimmed) > max_messages
     /\ total_size(Before) <= max_size)
        => /\ current_messages = untrimmed
           /\ Len(current_messages) > max_messages

\* a conversation of more than 20 messages within the budget goes to the
\* provider
C39_LongConversationSent ==
    /\ pc = "await_provider"
    /\ untrimmed # <<>>
    /\ Len(untrimmed) > max_messages
    /\ total_size(Before) <= max_size
    /\ total_size(untrimmed) <= max_total

\* C40: a save that returns an error, persisting the new entry having
\* failed, leaves the entry list as it was before the call: no entry has been
\* evicted and the new entry has not been added
C40_FailedSaveKeepsEntries ==
    [][(SaveStep /\ ~mem_result'.ok /\ mem_result' # Panicked)
          => memory'.entries = memory.entries]_vars

====
